---- MODULE Spec2Model ----
(***************************************************************************)
(* Model of the FlexBuild heuristic inference engine:                      *)
(*   - data-model inference      (lib/dataModelInference)                  *)
(*   - design-system extraction  (lib/designSystemExtraction)              *)
(*   - user-journey generation   (lib/userJourneyGeneration)               *)
(*   - the inference service that persists the inferred records            *)
(*                                                                         *)
(* JavaScript strings on which the code does character-level work          *)
(* (toLowerCase, includes, endsWith, replace, slice) are sequences of      *)
(* one-character strings.  Numbers that are fractions in the code          *)
(* (confidences) are exact rationals [n, d] or integers in tenths.         *)
(* A thrown TypeError is the value Threw; an operator that can throw       *)
(* returns a record with a field threw.                                    *)
(***************************************************************************)
EXTENDS Integers, Sequences, FiniteSets, TLC

VARIABLES
    entry,            \* which entry point this behaviour runs
    pc,               \* position inside the entry point
    components,       \* the Component[] passed by the caller
    screens,          \* the Screen[] passed by the caller
    dataModels,       \* inferDataModelsFromComponents: dataModels
    reasoning,        \* the reasoning log being built
    suggestions,      \* the suggestions list being built
    totalConfidence,  \* the confidence being accumulated (rational)
    stage,            \* per-stage results kept for the final step
    connections,      \* generateUserJourneysFromScreens: connections
    personas,         \* generateUserJourneysFromScreens: personas
    journeys,         \* generateUserJourneysFromScreens: journeys
    uuids,            \* how many UUIDs crypto.randomUUID() has handed out
    result,           \* the value returned (or the throw), status "none" until then
    service,          \* the InferenceService method in progress, if any
    db,               \* the records the database tables hold, in the order added
    project,          \* the caller of the entry points (analyzeProject), if any
    store             \* the state of useInferenceStore and its running actions

vars == <<entry, pc, components, screens, dataModels, reasoning, suggestions,
          totalConfidence, stage, connections, personas, journeys, uuids, result,
          service, db, project, store>>

-----------------------------------------------------------------------------
(* Bounds of the model *)

MaxComponents == 2

-----------------------------------------------------------------------------
(* Strings as sequences of characters *)

LowerAlpha == <<"a","b","c","d","e","f","g","h","i","j","k","l","m",
                "n","o","p","q","r","s","t","u","v","w","x","y","z">>
UpperAlpha == <<"A","B","C","D","E","F","G","H","I","J","K","L","M",
                "N","O","P","Q","R","S","T","U","V","W","X","Y","Z">>

AlphaIndex == DOMAIN LowerAlpha

toUpperChar(c) ==
    IF \E i \in AlphaIndex : LowerAlpha[i] = c
    THEN UpperAlpha[CHOOSE i \in AlphaIndex : LowerAlpha[i] = c]
    ELSE c

toLowerChar(c) ==
    IF \E i \in AlphaIndex : UpperAlpha[i] = c
    THEN LowerAlpha[CHOOSE i \in AlphaIndex : UpperAlpha[i] = c]
    ELSE c

toLowerCase(s) == [i \in DOMAIN s |-> toLowerChar(s[i])]

\* s.slice(0, -n)
dropLast(s, n) == IF Len(s) <= n THEN <<>> ELSE SubSeq(s, 1, Len(s) - n)

endsWith(s, suffix) ==
    /\ Len(s) >= Len(suffix)
    /\ SubSeq(s, Len(s) - Len(suffix) + 1, Len(s)) = suffix

includes(s, sub) ==
    \E i \in 0..(Len(s) - Len(sub)) : SubSeq(s, i + 1, i + Len(sub)) = sub

\* decimal digits of a natural number, as `${n}` prints it
Digits == <<"0","1","2","3","4","5","6","7","8","9">>

RECURSIVE numberToString(_)
numberToString(n) ==
    IF n < 10 THEN <<Digits[n + 1]>>
    ELSE numberToString(n \div 10) \o <<Digits[(n % 10) + 1]>>

\* str.charAt(0).toUpperCase() + str.slice(1)
capitalize(str) ==
    IF str = <<>> THEN <<>> ELSE <<toUpperChar(str[1])>> \o Tail(str)

\* the characters the class [-_\s] matches
isSeparator(c) == c \in {"-", "_", " "}

\* str.replace(/[-_\s]+(.)?/g, (_, c) => c ? c.toUpperCase() : ''):
\* every run of separators is removed and the character after it upper-cased;
\* a leading character that follows no separator is left as it is
RECURSIVE camelCaseFrom(_, _, _)
camelCaseFrom(str, i, afterSeparator) ==
    IF i > Len(str) THEN <<>>
    ELSE IF isSeparator(str[i]) THEN camelCaseFrom(str, i + 1, TRUE)
    ELSE <<IF afterSeparator THEN toUpperChar(str[i]) ELSE str[i]>>
             \o camelCaseFrom(str, i + 1, FALSE)

camelCase(str) == camelCaseFrom(str, 1, FALSE)

pluralize(str) ==
    IF endsWith(str, <<"y">>) THEN dropLast(str, 1) \o <<"i","e","s">>
    ELSE IF endsWith(str, <<"s">>) THEN str \o <<"e","s">>
    ELSE str \o <<"s">>

singularize(str) ==
    IF endsWith(str, <<"i","e","s">>) THEN dropLast(str, 3) \o <<"y">>
    ELSE IF endsWith(str, <<"e","s">>) THEN dropLast(str, 2)
    ELSE IF endsWith(str, <<"s">>) THEN dropLast(str, 1)
    ELSE str

-----------------------------------------------------------------------------
(* Exact rationals for the confidence arithmetic *)

RECURSIVE gcd(_, _)
gcd(a, b) == IF b = 0 THEN a ELSE gcd(b, a % b)

abs(x) == IF x < 0 THEN 0 - x ELSE x

\* n / d in lowest terms (d = 0 is kept as it is: a division by zero)
Rat(n, d) ==
    IF d = 0 \/ n = 0 THEN [n |-> n, d |-> IF d = 0 THEN 0 ELSE 1]
    ELSE [n |-> n \div gcd(abs(n), d), d |-> d \div gcd(abs(n), d)]
RatZero == Rat(0, 1)
RatAdd(a, b) == Rat(a.n * b.d + b.n * a.d, a.d * b.d)
RatDivInt(a, k) == Rat(a.n, a.d * k)
RatMulInt(a, k) == Rat(a.n * k, a.d)
RatLe(a, b) == a.n * b.d <= b.n * a.d
RatLt(a, b) == a.n * b.d < b.n * a.d
RatEq(a, b) == a.n * b.d = b.n * a.d
RatOne == Rat(1, 1)
InUnitInterval(a) == RatLe(RatZero, a) /\ RatLe(a, RatOne)

Max(a, b) == IF a >= b THEN a ELSE b

RECURSIVE sumInts(_)
sumInts(ints) == IF ints = <<>> THEN 0 ELSE Head(ints) + sumInts(Tail(ints))

Min(a, b) == IF a <= b THEN a ELSE b

-----------------------------------------------------------------------------
(* String literals of the code *)

s_form == <<"f","o","r","m">>
s_input == <<"i","n","p","u","t">>
s_textarea == <<"t","e","x","t","a","r","e","a">>
s_select == <<"s","e","l","e","c","t">>
s_checkbox == <<"c","h","e","c","k","b","o","x">>
s_radio == <<"r","a","d","i","o">>
s_list == <<"l","i","s","t">>
s_grid == <<"g","r","i","d">>
s_table == <<"t","a","b","l","e">>
s_card == <<"c","a","r","d">>
s_productCard == <<"p","r","o","d","u","c","t","-","c","a","r","d">>
s_userCard == <<"u","s","e","r","-","c","a","r","d">>
s_label == <<"l","a","b","e","l">>
s_text == <<"t","e","x","t">>
s_button == <<"b","u","t","t","o","n">>
s_email == <<"e","m","a","i","l">>
s_password == <<"p","a","s","s","w","o","r","d">>
s_title == <<"t","i","t","l","e">>
s_description == <<"d","e","s","c","r","i","p","t","i","o","n">>
s_name == <<"n","a","m","e">>
s_price == <<"p","r","i","c","e">>
s_number == <<"n","u","m","b","e","r">>
s_date == <<"d","a","t","e">>
s_datepicker == <<"d","a","t","e","p","i","c","k","e","r">>
s_toggle == <<"t","o","g","g","l","e">>
s_switch == <<"s","w","i","t","c","h">>
s_dropdown == <<"d","r","o","p","d","o","w","n">>
s_inputTypeEmail == <<"i","n","p","u","t","[","t","y","p","e","=","\"","e","m","a","i","l","\"","]">>
s_inputTypeNumber == <<"i","n","p","u","t","[","t","y","p","e","=","\"","n","u","m","b","e","r","\"","]">>
s_inputTypeDate == <<"i","n","p","u","t","[","t","y","p","e","=","\"","d","a","t","e","\"","]">>
s_id == <<"i","d">>
s_Id == <<"I","d">>
s_tags == <<"t","a","g","s">>
s_createdAt == <<"c","r","e","a","t","e","d","A","t">>
s_updatedAt == <<"u","p","d","a","t","e","d","A","t">>
s_Model == <<"M","o","d","e","l">>
s_CardModel == <<"C","a","r","d","M","o","d","e","l">>
s_User == <<"U","s","e","r">>
s_Post == <<"P","o","s","t">>
s_Product == <<"P","r","o","d","u","c","t">>
s_apiPrefix == <<"/","a","p","i","/">>
s_idSuffix == <<"/",":","i","d">>

-----------------------------------------------------------------------------
(* Data-model inference: lib/dataModelInference *)

\* a property of an `any` map read as a string: undefined when absent
hasTruthyString(map, key) == key \in DOMAIN map /\ map[key] # <<>>
\* a property read as a flag
hasTruthyFlag(map, key) == key \in DOMAIN map /\ map[key] = TRUE

\* a sort that leaves the order as it is
unsorted(seq, keys) == seq

\* the result of Array.prototype.sort((a, b) => key(b) - key(a)), which is stable
sortDescending(seq, keys) ==
    [k \in DOMAIN seq |->
        seq[CHOOSE i \in DOMAIN seq :
              Cardinality({j \in DOMAIN seq :
                              \/ keys[j] > keys[i]
                              \/ (keys[j] = keys[i] /\ j < i)}) = k - 1]]

\* the elements of seq at the indices kept, in their order
selectIndices(seq, kept) ==
    [k \in 1..Cardinality(kept) |->
        seq[CHOOSE i \in kept : Cardinality({j \in kept : j < i}) = k - 1]]

\* Array.prototype.filter
filterSeq(seq, keep) == selectIndices(seq, {i \in DOMAIN seq : i \in keep})

RECURSIVE flatten(_)
flatten(seqs) == IF seqs = <<>> THEN <<>> ELSE Head(seqs) \o flatten(Tail(seqs))

normalizeComponentType(componentType) ==
    LET t == toLowerCase(componentType) IN
    IF t \in {s_form, s_input, s_textarea, s_select, s_checkbox, s_radio} THEN "forms"
    ELSE IF t \in {s_list, s_grid, s_table} THEN "lists"
    ELSE IF t \in {s_card, s_productCard, s_userCard} THEN "cards"
    ELSE "other"

\* a grouping that puts every component into every category
groupEverything(comps, type) == comps

\* groups[type] of groupComponentsByType; the empty sequence stands for an absent key
groupComponentsByType(comps, type) ==
    filterSeq(comps, {i \in DOMAIN comps :
                         normalizeComponentType(comps[i].componentType) = type})

ProximityThreshold == 200

\* reading comp.position.x when the record has no position throws a TypeError
areComponentsNearThrows(comp1, comp2) ==
    "position" \notin DOMAIN comp1 \/ "position" \notin DOMAIN comp2

\* a test that takes every two components for near
alwaysNear(comp1, comp2) == TRUE

\* Math.sqrt(dx * dx + dy * dy) < threshold, squared on both sides
areComponentsNear(comp1, comp2) ==
    LET dx == comp1.position.x - comp2.position.x
        dy == comp1.position.y - comp2.position.y
    IN dx * dx + dy * dy < ProximityThreshold * ProximityThreshold

\* the inner forEach of groupFormsByProximity for the seed at index i:
\* the indices not yet used that are near the seed
nearUnused(comps, i, used) ==
    {j \in DOMAIN comps : j \notin used /\ areComponentsNear(comps[i], comps[j])}

\* the outer forEach from index i on; groups are sequences of indices
RECURSIVE groupFrom(_, _, _)
groupFrom(comps, i, used) ==
    IF i > Len(comps) THEN [threw |-> FALSE, groups |-> <<>>]
    ELSE IF i \in used THEN groupFrom(comps, i + 1, used)
    ELSE IF \E j \in DOMAIN comps :
                j \notin (used \cup {i}) /\ areComponentsNearThrows(comps[i], comps[j])
         THEN [threw |-> TRUE, groups |-> <<>>]
    ELSE LET members == nearUnused(comps, i, used \cup {i})
             group == <<i>> \o filterSeq([k \in DOMAIN comps |-> k], members)
             rest == groupFrom(comps, i + 1, used \cup {i} \cup members)
         IN [threw |-> rest.threw, groups |-> <<group>> \o rest.groups]

\* the groups as sequences of components, from the groups as sequences of indices
groupsOfIndices(comps, g) ==
    [threw |-> g.threw,
     groups |-> [k \in DOMAIN g.groups |->
                    [m \in DOMAIN g.groups[k] |-> comps[g.groups[k][m]]]]]

groupFormsByProximity(comps) == groupsOfIndices(comps, groupFrom(comps, 1, {}))

RECURSIVE splitWords(_, _, _)
splitWords(str, i, word) ==
    IF i > Len(str) THEN <<word>>
    ELSE IF str[i] = " " THEN <<word>> \o splitWords(str, i + 1, <<>>)
    ELSE splitWords(str, i + 1, Append(word, str[i]))

\* the words of one string that are longer than 3 characters
longWords(ws) == filterSeq(ws, {i \in DOMAIN ws : Len(ws[i]) > 3})

\* how often a word occurs among all words
wordCount(all, w) == Cardinality({i \in DOMAIN all : all[i] = w})

\* the words that occur more than once, most frequent first
commonAmong(all, firsts) ==
    sortDescending(firsts, [k \in DOMAIN firsts |-> wordCount(all, firsts[k])])

repeatedWords(all) ==
    commonAmong(all, filterSeq(all, {i \in DOMAIN all :
                                        /\ \A j \in 1..(i - 1) : all[j] # all[i]
                                        /\ wordCount(all, all[i]) > 1}))

findCommonWords(strings) ==
    repeatedWords(flatten([k \in DOMAIN strings |->
                              longWords(splitWords(toLowerCase(strings[k]), 1, <<>>))]))

\* c.props?.text || c.props?.label || ''
labelText(c) ==
    IF hasTruthyString(c.props, "text") THEN c.props.text
    ELSE IF hasTruthyString(c.props, "label") THEN c.props.label
    ELSE <<>>

\* the name chosen from the labels' common words, else from the field types
nameFrom(labels, commonWords, fieldTypes) ==
    IF labels # <<>> /\ commonWords # <<>> THEN capitalize(commonWords[1])
    ELSE IF s_email \in fieldTypes /\ s_password \in fieldTypes THEN s_User
    ELSE IF s_title \in fieldTypes /\ s_description \in fieldTypes THEN s_Post
    ELSE IF s_name \in fieldTypes /\ s_price \in fieldTypes THEN s_Product
    ELSE <<>>

nameFromLabels(labels, fieldTypes) == nameFrom(labels, findCommonWords(labels), fieldTypes)

\* the texts of the label and text components of a group
labelsOf(labelled) == [k \in DOMAIN labelled |-> labelText(labelled[k])]

\* null is the empty sequence
inferModelName(comps) ==
    nameFromLabels(
        labelsOf(filterSeq(comps, {i \in DOMAIN comps :
                                      /\ comps[i].componentType \in {s_label, s_text}
                                      /\ labelText(comps[i]) # <<>>})),
        {toLowerCase(comps[i].componentType) : i \in DOMAIN comps})

TextareaMaxLength == 1000

Rule(type, value) == [type |-> type, value |-> value]

\* props.name || props.id || props.label || type
fieldNameOf(props, type) ==
    IF hasTruthyString(props, "name") THEN props.name
    ELSE IF hasTruthyString(props, "id") THEN props.id
    ELSE IF hasTruthyString(props, "label") THEN props.label
    ELSE type

\* the field for the props and the lower-cased component type
fieldOf(props, type) ==
    LET
        fieldType ==
            IF type \in {s_number, s_inputTypeNumber} THEN "number"
            ELSE IF type \in {s_date, s_inputTypeDate, s_datepicker} THEN "date"
            ELSE IF type \in {s_checkbox, s_toggle, s_switch} THEN "boolean"
            ELSE IF type \in {s_select, s_dropdown} /\ hasTruthyFlag(props, "multiple")
                 THEN "array"
            ELSE "string"
        validation ==
            IF type \in {s_email, s_inputTypeEmail} THEN <<Rule("email", 0)>>
            ELSE IF type \in {s_number, s_inputTypeNumber}
                 THEN (IF "min" \in DOMAIN props THEN <<Rule("min", props.min)>> ELSE <<>>)
                      \o (IF "max" \in DOMAIN props THEN <<Rule("max", props.max)>> ELSE <<>>)
            ELSE IF type \in {s_select, s_dropdown}
                 THEN (IF "options" \in DOMAIN props /\ Len(props.options) > 0
                       THEN <<Rule("enum", props.options)>> ELSE <<>>)
            ELSE IF type = s_textarea THEN <<Rule("maxLength", TextareaMaxLength)>>
            ELSE <<>>
        required ==
            \/ hasTruthyFlag(props, "required")
            \/ ("validate" \in DOMAIN props /\ hasTruthyFlag(props.validate, "required"))
    IN [name |-> camelCase(fieldNameOf(props, type)),
        type |-> fieldType,
        required |-> required,
        validation |-> validation,
        defaultValue |-> IF "defaultValue" \in DOMAIN props
                         THEN props.defaultValue ELSE "undefined"]

inferFieldFromComponent(component) ==
    fieldOf(component.props, toLowerCase(component.componentType))

hasFieldNamed(fields, name) == \E i \in DOMAIN fields : fields[i].name = name

idField == [name |-> s_id, type |-> "string", required |-> TRUE,
            validation |-> <<Rule("uuid", 0)>>, defaultValue |-> "undefined"]
timestampField(name) == [name |-> name, type |-> "date", required |-> TRUE,
                         validation |-> <<>>, defaultValue |-> "now()"]

\* if (!fields.find(f => f.name === 'id')) fields.unshift(id)
withIdField(fields) ==
    IF hasFieldNamed(fields, s_id) THEN fields ELSE <<idField>> \o fields

\* if (!fields.find(f => f.name === name)) fields.push(timestamp)
withTimestamp(fields, name) ==
    IF hasFieldNamed(fields, name) THEN fields ELSE Append(fields, timestampField(name))

inferFieldsFromComponents(comps) ==
    withTimestamp(
        withTimestamp(withIdField([k \in DOMAIN comps |-> inferFieldFromComponent(comps[k])]),
                      s_createdAt),
        s_updatedAt)

generateCRUDEndpoints(modelName) ==
    LET plural == pluralize(toLowerCase(modelName)) IN
    << [method |-> "GET", path |-> s_apiPrefix \o plural],
       [method |-> "GET", path |-> s_apiPrefix \o plural \o s_idSuffix],
       [method |-> "POST", path |-> s_apiPrefix \o plural],
       [method |-> "PUT", path |-> s_apiPrefix \o plural \o s_idSuffix],
       [method |-> "DELETE", path |-> s_apiPrefix \o plural \o s_idSuffix] >>


ProjectId == "project-1"

FormModelConfidence == Rat(8, 10)
CardModelConfidence == Rat(7, 10)
CardMatchConfidence == Rat(8, 10)
ListMatchConfidence == Rat(9, 10)
ListNoMatchConfidence == Rat(6, 10)

\* `${prefix}${index}`
indexedName(prefix, index) == prefix \o numberToString(index)

\* the model analyzeFormComponents builds for the group at position index (from 1);
\* crypto.randomUUID() is the next unused number
namedFormModel(group, modelName, uuid) ==
    [id |-> uuid,
     projectId |-> ProjectId,
     name |-> modelName,
     fields |-> inferFieldsFromComponents(group),
     relationships |-> <<>>,
     endpoints |-> generateCRUDEndpoints(modelName),
     inferredFrom |-> [k \in DOMAIN group |-> group[k].id],
     confidence |-> FormModelConfidence,
     isUserDefined |-> FALSE]

\* inferModelName(group) || `Model${index + 1}`, index counted from 1 here
modelNameOr(inferredName, index) ==
    IF inferredName # <<>> THEN inferredName ELSE indexedName(s_Model, index)

formModelOf(group, index, uuid) ==
    namedFormModel(group, modelNameOr(inferModelName(group), index), uuid)

\* what analyzeFormComponents returns for the models it kept
formResultOf(models) ==
    [threw |-> FALSE,
     models |-> models,
     reasoning |-> [k \in DOMAIN models |->
                      [text |-> "Inferred model from form components",
                       model |-> models[k].name,
                       count |-> Len(models[k].inferredFrom)]],
     confidence |-> RatDivInt(RatMulInt(FormModelConfidence, Len(models)),
                              Max(1, Len(models)))]

\* if (fields.length > 0) models.push(model)
keptModels(candidates) ==
    filterSeq(candidates, {k \in DOMAIN candidates : Len(candidates[k].fields) > 0})

formAnalysisOf(grouping, uuid0) ==
    IF grouping.threw
    THEN [threw |-> TRUE, models |-> <<>>, reasoning |-> <<>>, confidence |-> RatZero]
    ELSE formResultOf(keptModels([k \in DOMAIN grouping.groups |->
                                     formModelOf(grouping.groups[k], k, uuid0 + k)]))

analyzeFormComponents(formComponents, uuid0) ==
    IF formComponents = <<>>
    THEN [threw |-> FALSE, models |-> <<>>, reasoning |-> <<>>, confidence |-> RatZero]
    ELSE formAnalysisOf(groupFormsByProximity(formComponents), uuid0)

\* stub of the code: compares nothing and reports no match (null is <<>>)
findMatchingModel(fields, models) == <<>>

\* Component.children holds component ids.  inferFieldsFromComponents(list.children)
\* hands each id, a string, to inferFieldFromComponent, which destructures
\* componentType from it (undefined) and calls componentType.toLowerCase(): TypeError
inferFieldsFromIdsThrows(listItems) == listItems # <<>>

\* the contribution of one list: throws, or a reasoning entry and a confidence
listContribution(list, existingModels) ==
    LET listItems == list.children IN
    IF listItems = <<>>
    THEN [threw |-> FALSE, reasoning |-> <<>>, confidence |-> RatZero]
    ELSE IF inferFieldsFromIdsThrows(listItems)
    THEN [threw |-> TRUE, reasoning |-> <<>>, confidence |-> RatZero]
    ELSE IF findMatchingModel(<<>>, existingModels) # <<>>
    THEN [threw |-> FALSE,
          reasoning |-> <<[text |-> "List component displays model data"]>>,
          confidence |-> ListMatchConfidence]
    ELSE [threw |-> FALSE,
          reasoning |-> <<[text |-> "List component structure suggests additional data model"]>>,
          confidence |-> ListNoMatchConfidence]

RECURSIVE sumRat(_)
sumRat(rats) == IF rats = <<>> THEN RatZero ELSE RatAdd(Head(rats), sumRat(Tail(rats)))

analyzeListComponents(listComponents, existingModels) ==
    LET each == [k \in DOMAIN listComponents |->
                    listContribution(listComponents[k], existingModels)]
    IN [threw |-> \E k \in DOMAIN each : each[k].threw,
        reasoning |-> flatten([k \in DOMAIN each |-> each[k].reasoning]),
        confidence |-> RatDivInt(sumRat([k \in DOMAIN each |-> each[k].confidence]),
                                 Max(1, Len(listComponents)))]

\* stubs of the code
groupSimilarCards(cards) == [k \in DOMAIN cards |-> <<cards[k]>>]
inferFieldsFromCardStructure(card) == <<>>
inferModelNameFromCard(card) == <<>>

cardModelOf(group, index, uuid) ==
    LET inferredName == inferModelNameFromCard(group[1])
        modelName == IF inferredName # <<>> THEN inferredName
                     ELSE indexedName(s_CardModel, index)
    IN [id |-> uuid,
        projectId |-> ProjectId,
        name |-> modelName,
        fields |-> inferFieldsFromCardStructure(group[1]),
        relationships |-> <<>>,
        endpoints |-> generateCRUDEndpoints(modelName),
        inferredFrom |-> [k \in DOMAIN group |-> group[k].id],
        confidence |-> CardModelConfidence,
        isUserDefined |-> FALSE]

analyzeCardComponents(cardComponents, existingModels, uuid0) ==
    LET cardGroups == groupSimilarCards(cardComponents)
        withFields == {k \in DOMAIN cardGroups :
                          Len(inferFieldsFromCardStructure(cardGroups[k][1])) > 0}
        matched(k) == findMatchingModel(inferFieldsFromCardStructure(cardGroups[k][1]),
                                        existingModels) # <<>>
        fresh == {k \in withFields : ~matched(k)}
        candidates == [k \in DOMAIN cardGroups |-> cardModelOf(cardGroups[k], k, uuid0 + k)]
        models == filterSeq(candidates, fresh)
        each == [k \in DOMAIN cardGroups |->
                    IF k \in fresh THEN CardModelConfidence
                    ELSE IF k \in withFields THEN CardMatchConfidence
                    ELSE RatZero]
    IN [threw |-> FALSE,
        models |-> models,
        reasoning |-> filterSeq([k \in DOMAIN cardGroups |->
                                    [text |-> IF k \in fresh
                                              THEN "Inferred model from card structure"
                                              ELSE "Card displays model data"]],
                                withFields),
        confidence |-> RatDivInt(sumRat(each), Max(1, Len(cardGroups)))]

\* models.find(m => m.name.toLowerCase() === name.toLowerCase()): its index, 0 for none
findModelNamed(models, name) ==
    IF \E i \in DOMAIN models : toLowerCase(models[i].name) = toLowerCase(name)
    THEN CHOOSE i \in DOMAIN models :
            /\ toLowerCase(models[i].name) = toLowerCase(name)
            /\ \A j \in 1..(i - 1) : toLowerCase(models[j].name) # toLowerCase(name)
    ELSE 0

\* the relationships one field of one model gives rise to
fieldRelationships(models, model, field) ==
    LET referenced == findModelNamed(models, dropLast(field.name, 2))
        possible == findModelNamed(models, singularize(field.name))
    IN (IF endsWith(field.name, s_Id) /\ field.name # s_id /\ referenced # 0
        THEN <<[from |-> model.id, to |-> models[referenced].id, type |-> "belongs_to"]>>
        ELSE <<>>)
       \o
       (IF field.type = "array" /\ field.name # s_tags /\ possible # 0
        THEN <<[from |-> model.id, to |-> models[possible].id, type |-> "has_many"]>>
        ELSE <<>>)

detectRelationships(models) ==
    flatten([m \in DOMAIN models |->
               flatten([f \in DOMAIN models[m].fields |->
                          fieldRelationships(models, models[m], models[m].fields[f])])])

\* models.find(m => m.id === id): its index, 0 for none
findModelById(models, id) ==
    IF \E i \in DOMAIN models : models[i].id = id
    THEN CHOOSE i \in DOMAIN models :
            models[i].id = id /\ \A j \in 1..(i - 1) : models[j].id # id
    ELSE 0

\* the foreign key applyRelationships writes for a relationship to toModel
foreignKeyFor(toModel) == camelCase(toModel.name) \o s_Id

applyRelationships(models, relationships) ==
    [m \in DOMAIN models |->
        LET mine == filterSeq(relationships,
                              {r \in DOMAIN relationships :
                                  /\ findModelById(models, relationships[r].from) = m
                                  /\ findModelById(models, relationships[r].to) # 0})
        IN [models[m] EXCEPT !.relationships =
              @ \o [r \in DOMAIN mine |->
                      LET toModel == models[findModelById(models, mine[r].to)]
                      IN [type |-> mine[r].type,
                          model |-> toModel.name,
                          foreignKey |-> foreignKeyFor(toModel),
                          required |-> FALSE]]]]

-----------------------------------------------------------------------------
(* The component batches the entry points are run on *)

s_EmailLabel == <<"E","m","a","i","l">>
s_PasswordLabel == <<"P","a","s","s","w","o","r","d">>
s_model1Id == <<"m","o","d","e","l","1","I","d">>
s_SelectType == <<"S","e","l","e","c","t">>
s_model1s == <<"m","o","d","e","l","1","s">>

\* form-category components: what the properties panel can set on them
FormKinds ==
    { [componentType |-> s_input, props |-> [label |-> s_EmailLabel]],
      [componentType |-> s_input, props |-> [label |-> s_PasswordLabel, required |-> TRUE]],
      [componentType |-> s_input, props |-> [name |-> s_id]],
      [componentType |-> s_input, props |-> [name |-> s_model1Id]],
      [componentType |-> s_SelectType, props |-> [name |-> s_model1s, multiple |-> TRUE]] }

\* canvas positions: the second is 40 from the first and 190 from the third,
\* the third is 230 from the first
Positions == { [x |-> 0, y |-> 0], [x |-> 24, y |-> 32], [x |-> 138, y |-> 184] }

\* a Component as types/index.ts declares it has no position; the proximity
\* grouping reads one, so batches with and without it are both drawn
FormTemplates ==
    { [componentType |-> k.componentType, props |-> k.props, children |-> <<>>]
        : k \in FormKinds }
    \cup
    { [componentType |-> k.componentType, props |-> k.props, children |-> <<>>,
       position |-> p] : k \in FormKinds, p \in Positions }

OtherTemplates ==
    { [componentType |-> s_button, props |-> [label |-> s_EmailLabel], children |-> <<>>],
      [componentType |-> s_list, props |-> <<>>, children |-> <<>>],
      [componentType |-> s_grid, props |-> <<>>, children |-> << <<"c","9">> >>],
      [componentType |-> s_card, props |-> <<>>, children |-> <<>>] }

ComponentTemplates == FormTemplates \cup OtherTemplates

componentId(i) == <<"c">> \o numberToString(i)

\* the record a template stands for, under the id it is stored with
withId(template, id) ==
    [key \in DOMAIN template \cup {"id"} |->
        IF key = "id" THEN id ELSE template[key]]

BatchesOf(templates, maxLen) ==
    UNION { { [i \in 1..n |-> withId(t[i], componentId(i))] : t \in [1..n -> templates] }
            : n \in 0..maxLen }

\* three form fields at positions of which the second is near both others
ProximityTriples ==
    { [i \in 1..3 |->
          withId([componentType |-> s_input, props |-> [label |-> s_EmailLabel],
                  children |-> <<>>, position |-> p[i]], componentId(i))]
        : p \in [1..3 -> Positions] }

ComponentBatches == BatchesOf(ComponentTemplates, MaxComponents) \cup ProximityTriples

-----------------------------------------------------------------------------
(* inferDataModelsFromComponents, stage by stage *)

NoResult == [status |-> "none"]
\* no InferenceService method is running: the library function is called directly
NoService == [name |-> "none", pc |-> "none"]
Threw == [status |-> "threw"]
\* no caller: the entry point is called on its own
NoProject == [pc |-> "none"]

\* no store: the entry point is not called through useInferenceStore
NoStore == [isInferring |-> FALSE]

PendingStage == [threw |-> FALSE, models |-> <<>>, reasoning |-> <<>>,
                 confidence |-> RatZero]
NoStages == [forms |-> PendingStage, lists |-> PendingStage, cards |-> PendingStage]

InitModels ==
    /\ entry = "inferDataModelsFromComponents"
    /\ pc = "forms"
    /\ components \in ComponentBatches
    /\ screens = <<>>
    /\ dataModels = <<>>
    /\ reasoning = <<>>
    /\ suggestions = <<>>
    /\ totalConfidence = RatZero
    /\ stage = NoStages
    /\ connections = <<>>
    /\ personas = <<>>
    /\ journeys = <<>>
    /\ uuids = 0
    /\ result = NoResult
    /\ service = NoService
    /\ db = <<>>
    /\ project = NoProject
    /\ store = NoStore

\* a TypeError leaves the function: the promise it returned rejects
Throw ==
    /\ pc' = "threw"
    /\ result' = Threw
    /\ UNCHANGED <<entry, components, screens, dataModels, reasoning, suggestions,
                   totalConfidence, connections, personas, journeys, uuids>>

\* lines 17-23
AnalyzeForms ==
    /\ UNCHANGED <<service, db, project, store>>
    /\ entry = "inferDataModelsFromComponents" /\ pc = "forms"
    /\ LET formModels == analyzeFormComponents(
                             groupComponentsByType(components, "forms"), uuids)
       IN /\ stage' = [stage EXCEPT !.forms = formModels]
          /\ IF formModels.threw THEN Throw
             ELSE /\ pc' = "lists"
                  /\ dataModels' = dataModels \o formModels.models
                  /\ reasoning' = reasoning \o formModels.reasoning
                  /\ totalConfidence' = RatAdd(totalConfidence, formModels.confidence)
                  /\ uuids' = uuids + Len(formModels.models)
                  /\ UNCHANGED <<entry, components, screens, suggestions, connections,
                                 personas, journeys, result>>

\* lines 26-28
AnalyzeLists ==
    /\ UNCHANGED <<service, db, project, store>>
    /\ entry = "inferDataModelsFromComponents" /\ pc = "lists"
    /\ LET listModels == analyzeListComponents(
                             groupComponentsByType(components, "lists"), dataModels)
       IN /\ stage' = [stage EXCEPT !.lists =
                          [threw |-> listModels.threw, models |-> dataModels,
                           reasoning |-> listModels.reasoning,
                           confidence |-> listModels.confidence]]
          /\ IF listModels.threw THEN Throw
             ELSE /\ pc' = "cards"
                  /\ reasoning' = reasoning \o listModels.reasoning
                  /\ totalConfidence' = RatAdd(totalConfidence, listModels.confidence)
                  /\ UNCHANGED <<entry, components, screens, dataModels, suggestions,
                                 connections, personas, journeys, uuids, result>>

\* lines 31-34
AnalyzeCards ==
    /\ UNCHANGED <<service, db, project, store>>
    /\ entry = "inferDataModelsFromComponents" /\ pc = "cards"
    /\ LET cardModels == analyzeCardComponents(
                             groupComponentsByType(components, "cards"), dataModels, uuids)
       IN /\ stage' = [stage EXCEPT !.cards = cardModels]
          /\ pc' = "relationships"
          /\ dataModels' = dataModels \o cardModels.models
          /\ reasoning' = reasoning \o cardModels.reasoning
          /\ totalConfidence' = RatAdd(totalConfidence, cardModels.confidence)
          /\ uuids' = uuids + Len(cardModels.models)
          /\ UNCHANGED <<entry, components, screens, suggestions, connections,
                         personas, journeys, result>>

\* lines 37-39
DetectRelationships ==
    /\ UNCHANGED <<service, db, project, store>>
    /\ entry \in {"inferDataModelsFromComponents", "detectRelationships"}
    /\ pc = "relationships"
    /\ LET relationships == detectRelationships(dataModels)
       IN /\ dataModels' = applyRelationships(dataModels, relationships)
          /\ reasoning' = reasoning \o
                [r \in DOMAIN relationships |->
                    [text |-> relationships[r].type,
                     from |-> relationships[r].from, to |-> relationships[r].to]]
    /\ pc' = "suggestions"
    /\ UNCHANGED <<entry, components, screens, suggestions, totalConfidence, stage,
                   connections, personas, journeys, uuids, result>>

AddFormsSuggestion == "Add forms or data-driven components to generate data models"
AddListsSuggestion == "Consider adding list views to display your form data"

MinConfidenceDivisor == 3

\* the sum of the stage confidences taken as the average
totalAsAverage(total, modelCount) == total

\* totalConfidence / Math.max(3, dataModels.length)
averageModelConfidence(total, modelCount) ==
    RatDivInt(total, Max(MinConfidenceDivisor, modelCount))

\* lines 42-57
ReturnDataModels ==
    /\ UNCHANGED <<service, db, project, store>>
    /\ entry \in {"inferDataModelsFromComponents", "detectRelationships"}
    /\ pc = "suggestions"
    /\ LET newSuggestions ==
              (IF Len(dataModels) = 0 THEN <<AddFormsSuggestion>> ELSE <<>>)
              \o (IF /\ Len(stage.forms.models) > 0
                     /\ groupComponentsByType(components, "lists") = <<>>
                  THEN <<AddListsSuggestion>> ELSE <<>>)
           avgConfidence == averageModelConfidence(totalConfidence, Len(dataModels))
       IN /\ suggestions' = suggestions \o newSuggestions
          /\ result' = [status |-> "returned",
                        data |-> dataModels,
                        confidence |-> avgConfidence,
                        reasoning |-> reasoning,
                        suggestions |-> suggestions \o newSuggestions]
    /\ pc' = "done"
    /\ UNCHANGED <<entry, components, screens, dataModels, reasoning, totalConfidence,
                   stage, connections, personas, journeys, uuids>>

NextModels ==
    \/ AnalyzeForms
    \/ AnalyzeLists
    \/ AnalyzeCards
    \/ DetectRelationships
    \/ ReturnDataModels

SpecModels == InitModels /\ [][NextModels]_vars

-----------------------------------------------------------------------------
(* detectRelationships / applyRelationships on their own: a batch of models   *)
(* built by the form stage's own field inference, under the names the name    *)
(* heuristics are written to produce                                          *)

MaxModels == 2

s_userId == <<"u","s","e","r","I","d">>
s_orderId == <<"o","r","d","e","r","I","d">>
s_users == <<"u","s","e","r","s">>
s_Order == <<"O","r","d","e","r">>

RelationGroups ==
    { << [id |-> componentId(1), componentType |-> s_input, props |-> [name |-> s_userId]] >>,
      << [id |-> componentId(1), componentType |-> s_input, props |-> [name |-> s_orderId]] >>,
      << [id |-> componentId(1), componentType |-> s_select,
          props |-> [name |-> s_users, multiple |-> TRUE]] >>,
      << [id |-> componentId(1), componentType |-> s_input, props |-> [label |-> s_EmailLabel]] >> }

ModelNames == {s_User, s_Order, indexedName(s_Model, 1)}

ModelTemplates ==
    { [formModelOf(g, 1, 0) EXCEPT !.name = n, !.endpoints = generateCRUDEndpoints(n)]
        : g \in RelationGroups, n \in ModelNames }

ModelBatches ==
    UNION { { [i \in 1..n |-> [t[i] EXCEPT !.id = i]] : t \in [1..n -> ModelTemplates] }
            : n \in 0..MaxModels }

InitRelationships ==
    /\ entry = "detectRelationships"
    /\ pc = "relationships"
    /\ components = <<>>
    /\ screens = <<>>
    /\ dataModels \in ModelBatches
    /\ reasoning = <<>>
    /\ suggestions = <<>>
    /\ totalConfidence = RatZero
    /\ stage = NoStages
    /\ connections = <<>>
    /\ personas = <<>>
    /\ journeys = <<>>
    /\ uuids = MaxModels
    /\ result = NoResult
    /\ service = NoService
    /\ db = <<>>
    /\ project = NoProject
    /\ store = NoStore

NextRelationships ==
    \/ DetectRelationships
    \/ ReturnDataModels

SpecRelationships == InitRelationships /\ [][NextRelationships]_vars

-----------------------------------------------------------------------------
(* User-journey generation: lib/userJourneyGeneration *)

\* keywords the code searches for
k_signUp == <<"s","i","g","n"," ","u","p">>
k_signIn == <<"s","i","g","n"," ","i","n">>
k_sign == <<"s","i","g","n">>
k_view == <<"v","i","e","w">>
k_create == <<"c","r","e","a","t","e">>
k_edit == <<"e","d","i","t">>
k_delete == <<"d","e","l","e","t","e">>
k_customize == <<"c","u","s","t","o","m","i","z","e">>
k_settings == <<"s","e","t","t","i","n","g","s">>
k_profile == <<"p","r","o","f","i","l","e">>
k_success == <<"s","u","c","c","e","s","s">>
k_login == <<"l","o","g","i","n">>
k_signup == <<"s","i","g","n","u","p">>
k_dashboard == <<"d","a","s","h","b","o","a","r","d">>
k_home == <<"h","o","m","e">>
k_main == <<"m","a","i","n">>
k_overview == <<"o","v","e","r","v","i","e","w">>
k_click == <<"c","l","i","c","k">>
k_fill == <<"f","i","l","l">>
k_enter == <<"e","n","t","e","r">>
k_select == <<"s","e","l","e","c","t">>
k_browse == <<"b","r","o","w","s","e">>

\* persona goals
g_SignUp == <<"S","i","g","n"," ","u","p">>
g_UnderstandFeatures == <<"U","n","d","e","r","s","t","a","n","d"," ","f","e","a","t","u","r","e","s">>
g_CompleteOnboarding == <<"C","o","m","p","l","e","t","e"," ","o","n","b","o","a","r","d","i","n","g">>
g_ViewContent == <<"V","i","e","w"," ","c","o","n","t","e","n","t">>
g_CreateItems == <<"C","r","e","a","t","e"," ","i","t","e","m","s">>
g_ManageData == <<"M","a","n","a","g","e"," ","d","a","t","a">>
g_CustomizeSettings == <<"C","u","s","t","o","m","i","z","e"," ","s","e","t","t","i","n","g","s">>
g_BulkOperations == <<"B","u","l","k"," ","o","p","e","r","a","t","i","o","n","s">>
g_AdvancedFeatures == <<"A","d","v","a","n","c","e","d"," ","f","e","a","t","u","r","e","s">>
g_NavigateApp == <<"N","a","v","i","g","a","t","e"," ","a","p","p">>
g_CompleteTasks == <<"C","o","m","p","l","e","t","e"," ","t","a","s","k","s">>

\* step actions
a_ClickSignUp == <<"C","l","i","c","k"," ","s","i","g","n"," ","u","p"," ","b","u","t","t","o","n">>
a_ClickLogin == <<"C","l","i","c","k"," ","l","o","g","i","n"," ","b","u","t","t","o","n">>
a_ExploreLanding == <<"E","x","p","l","o","r","e"," ","l","a","n","d","i","n","g"," ","p","a","g","e">>
a_EnterCredentials == <<"E","n","t","e","r"," ","c","r","e","d","e","n","t","i","a","l","s"," ","a","n","d"," ","s","u","b","m","i","t">>
a_FillRegistration == <<"F","i","l","l"," ","r","e","g","i","s","t","r","a","t","i","o","n"," ","f","o","r","m">>
a_CompleteForm == <<"C","o","m","p","l","e","t","e"," ","f","o","r","m"," ","f","i","e","l","d","s">>
a_BrowseItems == <<"B","r","o","w","s","e"," ","i","t","e","m","s"," ","i","n"," ","l","i","s","t">>
a_ClickCreate == <<"C","l","i","c","k"," ","c","r","e","a","t","e"," ","b","u","t","t","o","n">>
a_SelectItem == <<"S","e","l","e","c","t"," ","i","t","e","m"," ","f","r","o","m"," ","l","i","s","t">>
a_ClickEdit == <<"C","l","i","c","k"," ","e","d","i","t"," ","b","u","t","t","o","n">>
a_ClickDelete == <<"C","l","i","c","k"," ","d","e","l","e","t","e"," ","b","u","t","t","o","n">>
a_ViewDetails == <<"V","i","e","w"," ","i","t","e","m"," ","d","e","t","a","i","l","s">>
a_EditProfile == <<"E","d","i","t"," ","p","r","o","f","i","l","e"," ","i","n","f","o","r","m","a","t","i","o","n">>
a_ViewProfile == <<"V","i","e","w"," ","p","r","o","f","i","l","e"," ","i","n","f","o","r","m","a","t","i","o","n">>
a_ModifySettings == <<"M","o","d","i","f","y"," ","s","e","t","t","i","n","g","s">>
a_ReviewSettings == <<"R","e","v","i","e","w"," ","s","e","t","t","i","n","g","s"," ","o","p","t","i","o","n","s">>
a_Interact == <<"I","n","t","e","r","a","c","t"," ","w","i","t","h"," ","s","c","r","e","e","n">>

nameHas(screen, keyword) == includes(toLowerCase(screen.name), keyword)
goalHas(goal, keyword) == includes(toLowerCase(goal), keyword)

settingsRuleOnly(fromScreen, toScreen) ==
    IF fromScreen.routePath # <<>> /\ toScreen.routePath # <<>> /\ toScreen.type = "settings"
    THEN <<"Settings navigation">>
    ELSE <<>>

detectNavigationTriggers(fromScreen, toScreen) ==
    IF fromScreen.routePath # <<>> /\ toScreen.routePath # <<>>
    THEN (IF /\ fromScreen.type = "landing" /\ toScreen.type = "form"
             /\ nameHas(toScreen, k_login)
          THEN <<"Login button click">> ELSE <<>>)
         \o (IF fromScreen.type = "list" /\ toScreen.type = "detail"
             THEN <<"Item selection">> ELSE <<>>)
         \o (IF /\ fromScreen.type = "form"
                /\ (toScreen.type = "list" \/ nameHas(toScreen, k_success))
             THEN <<"Form submission">> ELSE <<>>)
         \o (IF toScreen.type = "settings"
             THEN <<"Settings navigation">> ELSE <<>>)
    ELSE <<>>

\* confidences of connections are in tenths
BaseConnectionConfidence == 5
LandingFormBoost == 2
ListDetailBoost == 3
FormSuccessBoost == 3
HomeConnectionConfidence == 7
ProfileSettingsConfidence == 8

\* Math.min(confidence, 1)
capAtOne(tenths) == Min(tenths, 10)

calculateConnectionConfidence(fromScreen, toScreen, triggers) ==
    capAtOne(BaseConnectionConfidence
             + Len(triggers)
             + (IF fromScreen.type = "landing" /\ toScreen.type = "form"
                THEN LandingFormBoost ELSE 0)
             + (IF fromScreen.type = "list" /\ toScreen.type = "detail"
                THEN ListDetailBoost ELSE 0)
             + (IF fromScreen.type = "form" /\ includes(toScreen.name, k_success)
                THEN FormSuccessBoost ELSE 0))

shouldConnectFromHome(screen) ==
    \/ screen.type \in {"list", "profile", "settings"}
    \/ \E name \in {k_dashboard, k_home, k_main, k_overview} : nameHas(screen, name)

\* screens.find(pred): the index of the first screen in `among`, 0 for none
firstIndex(among) == IF among = {} THEN 0 ELSE CHOOSE i \in among : \A j \in among : i <= j

hasConnection(conns, fromId, toId) ==
    \E c \in DOMAIN conns : conns[c].fromScreen.id = fromId /\ conns[c].toScreen.id = toId

\* the forEach of addImplicitConnections from index i on
RECURSIVE connectHomeFrom(_, _, _, _)
connectHomeFrom(scr, homeScreen, conns, i) ==
    IF i > Len(scr) THEN conns
    ELSE IF /\ scr[i].id # homeScreen.id
            /\ ~hasConnection(conns, homeScreen.id, scr[i].id)
            /\ shouldConnectFromHome(scr[i])
         THEN connectHomeFrom(scr, homeScreen,
                  Append(conns, [fromScreen |-> homeScreen, toScreen |-> scr[i],
                                 triggers |-> <<"Main navigation">>,
                                 confidence |-> HomeConnectionConfidence]),
                  i + 1)
         ELSE connectHomeFrom(scr, homeScreen, conns, i + 1)

addImplicitConnections(scr, conns) ==
    LET flagged == firstIndex({i \in DOMAIN scr : scr[i].isHomePage})
        landing == firstIndex({i \in DOMAIN scr : scr[i].type = "landing"})
        home == IF flagged # 0 THEN flagged ELSE landing
        withHome == IF home # 0 THEN connectHomeFrom(scr, scr[home], conns, 1) ELSE conns
        profile == firstIndex({i \in DOMAIN scr : scr[i].type = "profile"})
        settings == firstIndex({i \in DOMAIN scr : scr[i].type = "settings"})
    IN IF /\ profile # 0 /\ settings # 0
          /\ ~hasConnection(withHome, scr[profile].id, scr[settings].id)
       THEN Append(withHome, [fromScreen |-> scr[profile], toScreen |-> scr[settings],
                              triggers |-> <<"Settings link">>,
                              confidence |-> ProfileSettingsConfidence])
       ELSE withHome

explicitConnections(scr) ==
    flatten([i \in DOMAIN scr |->
        flatten([j \in DOMAIN scr |->
            LET triggers == detectNavigationTriggers(scr[i], scr[j]) IN
            IF scr[i].id # scr[j].id /\ Len(triggers) > 0
            THEN <<[fromScreen |-> scr[i], toScreen |-> scr[j], triggers |-> triggers,
                    confidence |-> calculateConnectionConfidence(scr[i], scr[j], triggers)]>>
            ELSE <<>>])])

detectScreenConnections(scr) == addImplicitConnections(scr, explicitConnections(scr))

PowerUserScreenCount == 5

identifyPersonas(scr) ==
    LET screenTypes == {scr[i].type : i \in DOMAIN scr}
        specific ==
            (IF "landing" \in screenTypes \/ "form" \in screenTypes
             THEN <<[name |-> "New User",
                     goals |-> <<g_SignUp, g_UnderstandFeatures, g_CompleteOnboarding>>]>>
             ELSE <<>>)
            \o (IF "list" \in screenTypes \/ "detail" \in screenTypes
                THEN <<[name |-> "Regular User",
                        goals |-> <<g_ViewContent, g_CreateItems, g_ManageData>>]>>
                ELSE <<>>)
            \o (IF "settings" \in screenTypes \/ Len(scr) > PowerUserScreenCount
                THEN <<[name |-> "Power User",
                        goals |-> <<g_CustomizeSettings, g_BulkOperations,
                                    g_AdvancedFeatures>>]>>
                ELSE <<>>)
    IN IF Len(specific) = 0
       THEN <<[name |-> "General User", goals |-> <<g_NavigateApp, g_CompleteTasks>>]>>
       ELSE specific

\* the index of the start screen, 0 for undefined (an empty list)
\* a start screen chosen without regard to flags and types
findStartFirst(scr, goal) == IF Len(scr) > 0 THEN 1 ELSE 0

findStartScreen(scr, goal) ==
    LET flagged == firstIndex({i \in DOMAIN scr : scr[i].isHomePage})
        landing == firstIndex({i \in DOMAIN scr : scr[i].type = "landing"})
        form == firstIndex({i \in DOMAIN scr : goalHas(goal, k_sign) /\ scr[i].type = "form"})
        list == firstIndex({i \in DOMAIN scr : goalHas(goal, k_view) /\ scr[i].type = "list"})
    IN IF flagged # 0 THEN flagged
       ELSE IF landing # 0 THEN landing
       ELSE IF form # 0 THEN form
       ELSE IF list # 0 THEN list
       ELSE IF Len(scr) > 0 THEN 1 ELSE 0

determineActionForScreen(screen, goal) ==
    CASE screen.type = "landing" ->
            IF goalHas(goal, k_signUp) THEN a_ClickSignUp
            ELSE IF goalHas(goal, k_signIn) THEN a_ClickLogin
            ELSE a_ExploreLanding
      [] screen.type = "form" ->
            IF nameHas(screen, k_login) THEN a_EnterCredentials
            ELSE IF nameHas(screen, k_signup) THEN a_FillRegistration
            ELSE a_CompleteForm
      [] screen.type = "list" ->
            IF goalHas(goal, k_view) THEN a_BrowseItems
            ELSE IF goalHas(goal, k_create) THEN a_ClickCreate
            ELSE a_SelectItem
      [] screen.type = "detail" ->
            IF goalHas(goal, k_edit) THEN a_ClickEdit
            ELSE IF goalHas(goal, k_delete) THEN a_ClickDelete
            ELSE a_ViewDetails
      [] screen.type = "profile" ->
            IF goalHas(goal, k_customize) THEN a_EditProfile ELSE a_ViewProfile
      [] screen.type = "settings" ->
            IF goalHas(goal, k_customize) THEN a_ModifySettings ELSE a_ReviewSettings
      [] OTHER -> a_Interact

determineExpectedOutcome(screen, goal) ==
    CASE screen.type = "landing" -> "User understands value proposition"
      [] screen.type = "form" ->
            IF nameHas(screen, k_login) THEN "User successfully authenticated"
            ELSE IF nameHas(screen, k_signup) THEN "Account created successfully"
            ELSE "Form submitted successfully"
      [] screen.type = "list" ->
            IF goalHas(goal, k_view) THEN "Data displayed correctly"
            ELSE "Navigation to detail view"
      [] screen.type = "detail" ->
            IF goalHas(goal, k_edit) THEN "Edit mode activated"
            ELSE "Complete information displayed"
      [] screen.type = "profile" -> "Profile information updated"
      [] screen.type = "settings" -> "Settings saved successfully"
      [] OTHER -> "Action completed successfully"

inferComponentInteractions(screen, action) ==
    LET actionLower == toLowerCase(action) IN
    (IF includes(actionLower, k_click) THEN <<"Button click">> ELSE <<>>)
    \o (IF includes(actionLower, k_fill) \/ includes(actionLower, k_enter)
        THEN <<"Form input", "Validation feedback">> ELSE <<>>)
    \o (IF includes(actionLower, k_select)
        THEN <<"Item selection", "Hover state">> ELSE <<>>)
    \o (IF includes(actionLower, k_browse) \/ includes(actionLower, k_view)
        THEN <<"Scroll interaction", "Content loading">> ELSE <<>>)

isScreenAlignedWithGoal(screen, goal) ==
    \/ goalHas(goal, k_signUp) /\ screen.type = "form" /\ nameHas(screen, k_sign)
    \/ goalHas(goal, k_view) /\ screen.type = "list"
    \/ goalHas(goal, k_create) /\ screen.type = "form"
    \/ goalHas(goal, k_settings) /\ screen.type = "settings"
    \/ goalHas(goal, k_profile) /\ screen.type = "profile"

isGoalComplete(screen, goal) ==
    \/ goalHas(goal, k_signUp) /\ nameHas(screen, k_success)
    \/ goalHas(goal, k_view) /\ screen.type = "detail"
    \/ goalHas(goal, k_create) /\ nameHas(screen, k_success)
    \/ goalHas(goal, k_settings) /\ screen.type = "settings"

\* a walk against the connections: the first connection into the current
\* screen from a screen not yet visited, turned round
backwardConnection(currentScreen, conns, goal, visitedScreens) ==
    LET into == filterSeq(conns,
                    {c \in DOMAIN conns :
                        /\ conns[c].toScreen.id = currentScreen.id
                        /\ conns[c].fromScreen.id \notin visitedScreens})
    IN IF Len(into) = 0 THEN <<>>
       ELSE <<[into[1] EXCEPT !.fromScreen = into[1].toScreen,
                              !.toScreen = into[1].fromScreen]>>

\* a walk that never finds a next screen
noNextScreen(currentScreen, conns, goal, visitedScreens) == <<>>

\* the connection chosen, as a sequence: empty for null
findBestNextScreen(currentScreen, conns, goal, visitedScreens) ==
    LET available == filterSeq(conns,
                        {c \in DOMAIN conns :
                            /\ conns[c].fromScreen.id = currentScreen.id
                            /\ conns[c].toScreen.id \notin visitedScreens})
        availableConnections ==
            sortDescending(available, [c \in DOMAIN available |-> available[c].confidence])
        goalAligned == firstIndex({c \in DOMAIN availableConnections :
                          isScreenAlignedWithGoal(availableConnections[c].toScreen, goal)})
    IN IF Len(availableConnections) = 0 THEN <<>>
       ELSE IF goalAligned # 0 THEN <<availableConnections[goalAligned]>>
       ELSE <<availableConnections[1]>>

MaxJourneySteps == 10

\* a loop whose only exit is the screens running out
loopUnlimited(stepNumber) == stepNumber <= MaxJourneySteps + MaxJourneySteps

\* the condition of the while loop (currentScreen is never null inside it)
loopContinues(stepNumber) == stepNumber <= MaxJourneySteps

\* the guard if (visitedScreens.has(currentScreen.id)) break
alreadyVisited(visitedScreens, screen) == screen.id \in visitedScreens

\* a walk that records no step
noSteps(currentScreen, stepNumber, visitedScreens, conns, goal) == <<>>

\* the while loop of generateJourneyForGoal, from the state it has on entering
\* an iteration; the result is the steps this and the later iterations push
RECURSIVE journeyLoop(_, _, _, _, _)
journeyLoop(currentScreen, stepNumber, visitedScreens, conns, goal) ==
    IF ~loopContinues(stepNumber) THEN <<>>
    ELSE IF alreadyVisited(visitedScreens, currentScreen) THEN <<>>
    ELSE LET visited == visitedScreens \cup {currentScreen.id}
             action == determineActionForScreen(currentScreen, goal)
             step == [stepNumber |-> stepNumber,
                      screenId |-> currentScreen.id,
                      action |-> action,
                      expectedOutcome |-> determineExpectedOutcome(currentScreen, goal),
                      componentInteractions |->
                          inferComponentInteractions(currentScreen, action)]
             nextConnection == findBestNextScreen(currentScreen, conns, goal, visited)
         IN IF nextConnection = <<>> \/ isGoalComplete(currentScreen, goal)
            THEN <<step>>
            ELSE <<step>> \o journeyLoop(nextConnection[1].toScreen, stepNumber + 1,
                                         visited, conns, goal)

generateSuccessCriteria(goal, steps) ==
    IF goalHas(goal, k_signUp)
    THEN [text |-> "User account created and redirected to dashboard"]
    ELSE IF goalHas(goal, k_create) THEN [text |-> "New item created and visible in list"]
    ELSE IF goalHas(goal, k_view) THEN [text |-> "User successfully viewed desired content"]
    ELSE IF goalHas(goal, k_customize)
    THEN [text |-> "Settings saved and applied throughout app"]
    ELSE [text |-> "User completed steps and achieved goal",
          steps |-> Len(steps), goal |-> goal]

\* goalIndex counts from 0, as the forEach index does
determinePriority(persona, goalIndex) ==
    IF persona.name = "New User" /\ goalIndex = 0 THEN "high"
    ELSE IF persona.name = "Regular User" /\ goalIndex < 2 THEN "high"
    ELSE IF goalIndex = 0 THEN "medium"
    ELSE "low"

JourneyConfidence == Rat(8, 10)

\* the journey, as a sequence: empty for null
generateJourneyForGoal(persona, goal, scr, conns, index, uuid) ==
    LET start == findStartScreen(scr, goal)
        steps == journeyLoop(scr[start], 1, {}, conns, goal)
    IN IF start = 0 THEN <<>>
       ELSE IF Len(steps) = 0 THEN <<>>
       ELSE <<[id |-> uuid,
               projectId |-> ProjectId,
               name |-> [persona |-> persona.name, goal |-> goal],
               persona |-> persona.name,
               goal |-> goal,
               steps |-> steps,
               successCriteria |-> generateSuccessCriteria(goal, steps),
               priority |-> determinePriority(persona, index),
               confidence |-> JourneyConfidence]>>

\* the forEach of generatePersonaJourneys from goal g (from 1) on
RECURSIVE personaJourneysFrom(_, _, _, _, _)
personaJourneysFrom(persona, scr, conns, g, uuid) ==
    IF g > Len(persona.goals) THEN <<>>
    ELSE LET journey == generateJourneyForGoal(persona, persona.goals[g], scr, conns,
                                                g - 1, uuid + 1)
         IN journey \o personaJourneysFrom(persona, scr, conns, g + 1, uuid + Len(journey))

generatePersonaJourneys(persona, scr, conns, uuid) ==
    personaJourneysFrom(persona, scr, conns, 1, uuid)

findOrphanScreens(scr, conns) ==
    filterSeq(scr, {i \in DOMAIN scr :
                      \A c \in DOMAIN conns :
                          conns[c].fromScreen.id # scr[i].id /\ conns[c].toScreen.id # scr[i].id})

\* journeys.reduce((sum, j) => sum + (j.confidence || 0.5), 0) / Math.max(1, journeys.length)
averageJourneyConfidence(js) ==
    RatDivInt(sumRat([j \in DOMAIN js |-> js[j].confidence]), Max(1, Len(js)))

-----------------------------------------------------------------------------
(* IEEE-754 binary64 arithmetic on positive numbers, as reduce and / compute the
   aggregate journey confidence.  A number is mantissa * 2^exp with a 53-bit
   mantissa held in two limbs: mantissa = hi * 2^26 + lo, 2^26 <= hi < 2^27 *)

LimbBase == 2 ^ 26

Float64(hi, lo, exp) == [hi |-> hi, lo |-> lo, exp |-> exp]

Float64Zero == Float64(0, 0, 0)

\* the number of binary digits of x > 0
bitLength(x) == CHOOSE b \in 1..31 : 2 ^ (b - 1) <= x /\ (b = 31 \/ x < 2 ^ b)

\* the limbs after a rounding increment: the carry out of lo, and the mantissa
\* 2^53 renormalised
carryLimbs(hi, lo, exp) ==
    IF hi + lo \div LimbBase = 2 * LimbBase
    THEN Float64(LimbBase, 0, exp + 1)
    ELSE Float64(hi + lo \div LimbBase, lo % LimbBase, exp)

\* (hi * 2^26 + lo) * 2^exp rounded to 53 bits, ties to even
roundToNearestEven(hi, lo, exp) ==
    LET s == bitLength(hi) - 27 IN
    IF s = 0 THEN Float64(hi, lo, exp)
    ELSE LET kept == lo \div (2 ^ s) + (hi % (2 ^ s)) * 2 ^ (26 - s)
             rem == lo % (2 ^ s)
             half == 2 ^ (s - 1)
             up == rem > half \/ (rem = half /\ kept % 2 = 1)
         IN carryLimbs(hi \div (2 ^ s), kept + (IF up THEN 1 ELSE 0), exp + s)

\* a + b, for exponents at most 3 apart (the partial sums of up to nine 0.8)
float64Add(a, b) ==
    IF a = Float64Zero THEN b
    ELSE IF b = Float64Zero THEN a
    ELSE LET big == IF a.exp >= b.exp THEN a ELSE b
             small == IF a.exp >= b.exp THEN b ELSE a
             d == big.exp - small.exp
             loSum == big.lo * 2 ^ d + small.lo
         IN roundToNearestEven(big.hi * 2 ^ d + small.hi + loSum \div LimbBase,
                               loSum % LimbBase, small.exp)

\* a / n for an integer 1 <= n <= 15: long division over three limbs, the
\* remainder kept as the sticky bit
float64DivInt(a, n) ==
    IF a = Float64Zero THEN a
    ELSE LET q1 == a.hi \div n
             mid == (a.hi % n) * LimbBase + a.lo
             q2 == mid \div n
             low == (mid % n) * LimbBase
             q3 == low \div n
             sticky == low % n # 0
             s == bitLength(q1) - 1
             kept == (q2 % (2 ^ s)) * 2 ^ (26 - s) + q3 \div (2 ^ s)
             rem == q3 % (2 ^ s)
             half == 2 ^ (s - 1)
             up == rem > half \/ (rem = half /\ (sticky \/ kept % 2 = 1))
         IN carryLimbs(q1 * 2 ^ (26 - s) + q2 \div (2 ^ s),
                       kept + (IF up THEN 1 ELSE 0), a.exp - 26 + s)

\* the literal 0.8, 0x3FE999999999999A
JourneyConfidence64 == Float64(107374182, 26843546, 0 - 53)

\* the literal 0.5 of (j.confidence || 0.5)
FallbackConfidence64 == Float64(LimbBase, 0, 0 - 53)

\* journeys.reduce((sum, j) => sum + (j.confidence || 0.5), 0) over the first k
RECURSIVE sumConfidences64(_, _)
sumConfidences64(js, k) ==
    IF k = 0 THEN Float64Zero
    ELSE float64Add(sumConfidences64(js, k - 1),
                    IF js[k].confidence = JourneyConfidence THEN JourneyConfidence64
                    ELSE FallbackConfidence64)

\* the binary64 number avgConfidence holds
averageJourneyConfidence64(js) ==
    float64DivInt(sumConfidences64(js, Len(js)), Max(1, Len(js)))

-----------------------------------------------------------------------------
(* The screen lists generateUserJourneysFromScreens is run on *)

MaxScreens == 2
MaxLongScreens == 11

n_Home == <<"H","o","m","e">>
n_Welcome == <<"W","e","l","c","o","m","e">>
n_Login == <<"L","o","g","i","n">>
n_Signup == <<"S","i","g","n","u","p">>
n_Success == <<"S","u","c","c","e","s","s">>
n_success == <<"s","u","c","c","e","s","s">>
n_Items == <<"I","t","e","m","s">>
n_Item == <<"I","t","e","m">>
n_Profile == <<"P","r","o","f","i","l","e">>
n_Settings == <<"S","e","t","t","i","n","g","s">>
r_path == <<"/","p","a","g","e">>

ScreenTemplate(name, type, routePath, isHomePage) ==
    [name |-> name, type |-> type, routePath |-> routePath, isHomePage |-> isHomePage]

ScreenTemplates ==
    { ScreenTemplate(n_Home, "landing", r_path, TRUE),
      ScreenTemplate(n_Welcome, "landing", r_path, FALSE),
      ScreenTemplate(n_Login, "form", r_path, FALSE),
      ScreenTemplate(n_Signup, "form", r_path, FALSE),
      ScreenTemplate(n_Success, "detail", r_path, FALSE),
      ScreenTemplate(n_success, "form", r_path, FALSE),
      ScreenTemplate(n_Items, "list", r_path, FALSE),
      ScreenTemplate(n_Items, "list", r_path, TRUE),
      ScreenTemplate(n_Item, "detail", r_path, FALSE),
      ScreenTemplate(n_Items, "list", <<>>, FALSE),
      ScreenTemplate(n_Profile, "profile", r_path, FALSE),
      ScreenTemplate(n_Profile, "profile", <<>>, FALSE),
      ScreenTemplate(n_Settings, "settings", r_path, FALSE) }

screenId(i) == <<"s">> \o numberToString(i)

ScreenLists ==
    UNION { { [i \in 1..n |-> withId(t[i], screenId(i))] : t \in [1..n -> ScreenTemplates] }
            : n \in 0..MaxScreens }

\* projects of many screens that all reach each other: only settings screens
LongScreenLists ==
    { [i \in 1..n |-> withId(ScreenTemplate(n_Settings, "settings", r_path, FALSE), screenId(i))]
        : n \in (MaxScreens + 1)..MaxLongScreens }

-----------------------------------------------------------------------------
(* generateUserJourneysFromScreens, stage by stage *)

InitJourneys ==
    /\ entry = "generateUserJourneysFromScreens"
    /\ pc = "connections"
    /\ components = <<>>
    /\ screens \in ScreenLists \cup LongScreenLists
    /\ dataModels = <<>>
    /\ reasoning = <<>>
    /\ suggestions = <<>>
    /\ totalConfidence = RatZero
    /\ stage = [persona |-> 1]
    /\ connections = <<>>
    /\ personas = <<>>
    /\ journeys = <<>>
    /\ uuids = 0
    /\ result = NoResult
    /\ service = NoService
    /\ db = <<>>
    /\ project = NoProject
    /\ store = NoStore

\* lines 29-36
ReturnNoScreens ==
    /\ UNCHANGED <<service, db, project, store>>
    /\ entry = "generateUserJourneysFromScreens" /\ pc = "connections"
    /\ Len(screens) = 0
    /\ result' = [status |-> "returned",
                  data |-> <<>>,
                  confidence |-> RatZero,
                  reasoning |-> <<[text |-> "No screens available to generate journeys"]>>,
                  suggestions |-> <<"Add screens to your project to generate user journeys">>]
    /\ pc' = "done"
    /\ UNCHANGED <<entry, components, screens, dataModels, reasoning, suggestions,
                   totalConfidence, stage, connections, personas, journeys, uuids>>

\* lines 39-40
DetectConnections ==
    /\ UNCHANGED <<service, db, project, store>>
    /\ entry = "generateUserJourneysFromScreens" /\ pc = "connections"
    /\ Len(screens) # 0
    /\ connections' = detectScreenConnections(screens)
    /\ reasoning' = Append(reasoning, [text |-> "Detected screen connections",
                                       count |-> Len(connections')])
    /\ pc' = "personas"
    /\ UNCHANGED <<entry, components, screens, dataModels, suggestions, totalConfidence,
                   stage, personas, journeys, uuids, result>>

\* lines 43-44
IdentifyPersonas ==
    /\ UNCHANGED <<service, db, project, store>>
    /\ entry = "generateUserJourneysFromScreens" /\ pc = "personas"
    /\ personas' = identifyPersonas(screens)
    /\ reasoning' = Append(reasoning, [text |-> "Identified user personas",
                                       count |-> Len(personas')])
    /\ pc' = "journeys"
    /\ UNCHANGED <<entry, components, screens, dataModels, suggestions, totalConfidence,
                   stage, connections, journeys, uuids, result>>

\* lines 47-57, one persona of the forEach
GeneratePersonaJourneys ==
    /\ UNCHANGED <<service, db, project, store>>
    /\ entry = "generateUserJourneysFromScreens" /\ pc = "journeys"
    /\ stage.persona <= Len(personas)
    /\ LET persona == personas[stage.persona]
           personaJourneys == generatePersonaJourneys(persona, screens, connections, uuids)
       IN /\ journeys' = journeys \o personaJourneys
          /\ reasoning' = Append(reasoning, [text |-> "Generated journeys for persona",
                                             count |-> Len(personaJourneys),
                                             persona |-> persona.name])
          /\ uuids' = uuids + Len(personaJourneys)
    /\ stage' = [stage EXCEPT !.persona = @ + 1]
    /\ UNCHANGED <<entry, pc, components, screens, dataModels, suggestions,
                   totalConfidence, connections, personas, result>>

\* lines 60-83
ReturnJourneys ==
    /\ UNCHANGED <<service, db, project, store>>
    /\ entry = "generateUserJourneysFromScreens" /\ pc = "journeys"
    /\ stage.persona > Len(personas)
    /\ LET orphanScreens == findOrphanScreens(screens, connections)
           newSuggestions ==
              (IF Len(journeys) = 0
               THEN <<"Add navigation elements to connect your screens",
                      "Define clear user goals for journey generation">>
               ELSE <<>>)
              \o (IF \A i \in DOMAIN screens : ~screens[i].isHomePage
                  THEN <<"Mark one screen as the home page for better journey flow">>
                  ELSE <<>>)
              \o (IF Len(orphanScreens) > 0
                  THEN <<"Connect isolated screens to the main flow">>
                  ELSE <<>>)
       IN /\ suggestions' = suggestions \o newSuggestions
          /\ result' = [status |-> "returned",
                        data |-> journeys,
                        confidence |-> averageJourneyConfidence(journeys),
                        confidence64 |-> averageJourneyConfidence64(journeys),
                        reasoning |-> reasoning,
                        suggestions |-> suggestions \o newSuggestions]
    /\ pc' = "done"
    /\ UNCHANGED <<entry, components, screens, dataModels, reasoning, totalConfidence,
                   stage, connections, personas, journeys, uuids>>

NextJourneys ==
    \/ ReturnNoScreens
    \/ DetectConnections
    \/ IdentifyPersonas
    \/ GeneratePersonaJourneys
    \/ ReturnJourneys

SpecJourneys == InitJourneys /\ [][NextJourneys]_vars

-----------------------------------------------------------------------------
(* Design-system extraction: lib/designSystemExtraction *)

s_background == <<"b","a","c","k","g","r","o","u","n","d">>
s_border == <<"b","o","r","d","e","r">>
s_green == <<"g","r","e","e","n">>
s_red == <<"r","e","d">>
s_yellow == <<"y","e","l","l","o","w">>
s_orange == <<"o","r","a","n","g","e">>
s_rgb == <<"r","g","b">>
s_hsl == <<"h","s","l">>
s_px == <<"p","x">>
s_hash == "#"

DefaultPrimary == <<"#","3","b","8","2","f","6">>
DefaultSecondary == <<"#","8","b","5","c","f","6">>
DefaultSuccess == <<"#","1","0","b","9","8","1">>
DefaultWarning == <<"#","f","5","9","e","0","b">>
DefaultError == <<"#","e","f","4","4","4","4">>
DefaultHue == <<"#","6","b","7","2","8","0">>
DefaultFontFamily == <<"'","I","n","t","e","r","'",","," ","s","y","s","t","e","m","-","u","i",","," ","-","a","p","p","l","e","-","s","y","s","t","e","m",","," ","s","a","n","s","-","s","e","r","i","f">>
DefaultFontSize == <<"1","r","e","m">>
DefaultFontWeight == <<"n","o","r","m","a","l">>

HexDigits == {"0","1","2","3","4","5","6","7","8","9",
              "a","b","c","d","e","f","A","B","C","D","E","F"}

startsWith(str, prefix) ==
    Len(str) >= Len(prefix) /\ SubSeq(str, 1, Len(prefix)) = prefix

\* const { customStyles = {} } = component; customStyles[key], as a sequence:
\* empty when the component has no customStyles or no such key
customStyle(component, key) ==
    IF "customStyles" \in DOMAIN component /\ key \in DOMAIN component.customStyles
    THEN <<component.customStyles[key]>>
    ELSE <<>>

\* props[key], as a sequence: empty when there is no such key
propOf(component, key) ==
    IF key \in DOMAIN component.props THEN <<component.props[key]>> ELSE <<>>

\* a string-valued property that is present and not the empty string
truthyText(value) == value # <<>> /\ value[1] # <<>>

isValidColor(color) ==
    \/ Len(color) = 7 /\ color[1] = s_hash /\ \A i \in 2..7 : color[i] \in HexDigits
    \/ startsWith(color, s_rgb)
    \/ startsWith(color, s_hsl)

\* /#[0-9a-f]*CLASS/i : a '#', hexadecimal digits, then a character of the class
hashThenHexThen(color, class) ==
    \E i \in DOMAIN color : \E j \in DOMAIN color :
        /\ i < j
        /\ color[i] = s_hash
        /\ \A k \in (i + 1)..(j - 1) : color[k] \in HexDigits
        /\ color[j] \in class

isGreenish(color) ==
    includes(color, s_green) \/ hashThenHexThen(color, {"8","9","a","b","A","B"})

isReddish(color) ==
    \/ includes(color, s_red)
    \/ \E i \in DOMAIN color :
          i + 1 \in DOMAIN color /\ color[i] = s_hash /\ color[i + 1] \in {"e","f","E","F"}

isYellowish(color) ==
    \/ includes(color, s_yellow)
    \/ includes(color, s_orange)
    \/ \E i \in DOMAIN color :
          /\ i + 2 \in DOMAIN color /\ color[i] = s_hash
          /\ color[i + 1] \in {"e","f","E","F"} /\ color[i + 2] \in {"e","f","E","F"}

extractColorsFromComponent(component) ==
    LET colorEntry(value, context) ==
            IF truthyText(value) THEN <<[color |-> value[1], context |-> context]>> ELSE <<>>
        colors ==
            colorEntry(customStyle(component, "backgroundColor"), s_background)
            \o colorEntry(customStyle(component, "color"), s_text)
            \o colorEntry(customStyle(component, "borderColor"), s_border)
            \o colorEntry(propOf(component, "color"), component.componentType)
            \o colorEntry(propOf(component, "backgroundColor"), s_background)
    IN filterSeq(colors, {i \in DOMAIN colors : isValidColor(colors[i].color)})

\* the distinct values of a sequence, in the order they first occur
distinctInOrder(values) ==
    selectIndices(values, {i \in DOMAIN values :
                              \A j \in 1..(i - 1) : values[j] # values[i]})

occurrences(values, v) == Cardinality({i \in DOMAIN values : values[i] = v})

\* the contexts of the entries with one color (or spacing value), in order
contextsOf(entries) == distinctInOrder([i \in DOMAIN entries |-> entries[i].context])

colorUsageOf(colors, color) ==
    [color |-> color,
     count |-> Cardinality({i \in DOMAIN colors : colors[i].color = color}),
     contexts |-> contextsOf(filterSeq(colors,
                                       {i \in DOMAIN colors : colors[i].color = color}))]

colorUsagesOf(colors, distinct) ==
    [u \in DOMAIN distinct |-> colorUsageOf(colors, distinct[u])]

\* what the colors.forEach loops of analyzeColorUsage leave in colorUsages: one
\* usage per color in the order the colors first occur, with the number of its
\* occurrences and its contexts in the order they first occur
countColors(colors) ==
    colorUsagesOf(colors, distinctInOrder([i \in DOMAIN colors |-> colors[i].color]))

\* a lightening that depends on how many ids have been generated so far
lightenByRun(color, amount) == color \o numberToString(uuids)

lighten(color, amount) == color
darken(color, amount) == color

\* a scale of the base color alone
baseOnlyScale(baseColor) == << <<500, baseColor>> >>

\* the scale, as the object's entries in key order
generateColorScale(baseColor) ==
    << <<50, lighten(baseColor, 95)>>, <<100, lighten(baseColor, 90)>>,
       <<200, lighten(baseColor, 80)>>, <<300, lighten(baseColor, 60)>>,
       <<400, lighten(baseColor, 30)>>, <<500, baseColor>>,
       <<600, darken(baseColor, 10)>>, <<700, darken(baseColor, 30)>>,
       <<800, darken(baseColor, 50)>>, <<900, darken(baseColor, 70)>> >>

generateNeutralScale ==
    << <<50, <<"#","f","9","f","a","f","b">>>>, <<100, <<"#","f","3","f","4","f","6">>>>, <<200, <<"#","e","5","e","7","e","b">>>>,
       <<300, <<"#","d","1","d","5","d","b">>>>, <<400, <<"#","9","c","a","3","a","f">>>>, <<500, <<"#","6","b","7","2","8","0">>>>,
       <<600, <<"#","4","b","5","5","6","3">>>>, <<700, <<"#","3","7","4","1","5","1">>>>, <<800, <<"#","1","f","2","9","3","7">>>>,
       <<900, <<"#","1","1","1","8","2","7">>>> >>

findColorByHue(colors, hue) ==
    LET found == firstIndex({c \in DOMAIN colors :
                    IF hue = "green" THEN isGreenish(colors[c].color)
                    ELSE IF hue = "red" THEN isReddish(colors[c].color)
                    ELSE IF hue = "yellow" THEN isYellowish(colors[c].color)
                    ELSE FALSE})
    IN IF found # 0 THEN colors[found].color ELSE DefaultHue

RatSub(a, b) == Rat(a.n * b.d - b.n * a.d, a.d * b.d)
RatMul(a, b) == Rat(a.n * b.n, a.d * b.d)
RatMax(a, b) == IF RatLe(b, a) THEN a ELSE b

IdealColorCount == 10

\* the deviation from the ideal count, not clamped at zero
consistencyUnclamped(n, ideal) == RatSub(RatOne, Rat(abs(n - ideal), ideal))

\* Math.max(0, 1 - Math.abs(n - ideal) / ideal) for a count n
consistencyOfCount(n, ideal) ==
    RatMax(RatZero, RatSub(RatOne, Rat(abs(n - ideal), ideal)))

calculateColorConsistency(colors) ==
    IF Len(colors) = 0 THEN RatOne ELSE consistencyOfCount(Len(colors), IdealColorCount)

MaxPrimaryCandidates == 5
ConsolidateThreshold == Rat(7, 10)

analyzeColorUsage(comps) ==
    LET observed == flatten([i \in DOMAIN comps |-> extractColorsFromComponent(comps[i])])
        counted == countColors(observed)
        colorUsages == sortDescending(counted, [u \in DOMAIN counted |-> counted[u].count])
        primaryCandidates == SubSeq(colorUsages, 1, Min(MaxPrimaryCandidates, Len(colorUsages)))
        preferred == firstIndex({c \in DOMAIN primaryCandidates :
                        \E x \in DOMAIN primaryCandidates[c].contexts :
                            primaryCandidates[c].contexts[x] \in {s_background, s_button}})
        \* the primary color, as a sequence: empty for undefined
        primaryColor == IF preferred # 0 THEN <<primaryCandidates[preferred]>>
                        ELSE SubSeq(primaryCandidates, 1, Min(1, Len(primaryCandidates)))
        consistency == calculateColorConsistency(colorUsages)
        hasSuccess == \E c \in DOMAIN colorUsages : isGreenish(colorUsages[c].color)
        hasError == \E c \in DOMAIN colorUsages : isReddish(colorUsages[c].color)
        hasWarning == \E c \in DOMAIN colorUsages : isYellowish(colorUsages[c].color)
    IN [colorUsages |-> colorUsages,
        primaryColor |-> primaryColor,
        colors |->
            [primary |-> generateColorScale(IF primaryColor # <<>> THEN primaryColor[1].color
                                            ELSE DefaultPrimary),
             secondary |-> generateColorScale(DefaultSecondary),
             neutral |-> generateNeutralScale,
             success |-> IF hasSuccess THEN findColorByHue(colorUsages, "green")
                         ELSE DefaultSuccess,
             warning |-> IF hasWarning THEN findColorByHue(colorUsages, "yellow")
                         ELSE DefaultWarning,
             error |-> IF hasError THEN findColorByHue(colorUsages, "red")
                       ELSE DefaultError],
        reasoning |->
            <<[text |-> "Identified unique colors across components",
               count |-> Len(colorUsages)],
              [text |-> "Primary color",
               color |-> IF primaryColor # <<>> THEN primaryColor[1].color ELSE <<>>,
               count |-> IF primaryColor # <<>> THEN primaryColor[1].count ELSE 0]>>,
        suggestions |->
            (IF RatLt(consistency, ConsolidateThreshold)
             THEN <<"Consider consolidating colors - too many unique colors detected",
                    "Found colors, recommend using 8-12 colors max">>
             ELSE <<>>)
            \o (IF ~hasSuccess
                THEN <<"Add a success color (green) for positive feedback">> ELSE <<>>)
            \o (IF ~hasError THEN <<"Add an error color (red) for error states">> ELSE <<>>)
            \o (IF ~hasWarning
                THEN <<"Add a warning color (yellow/orange) for warnings">> ELSE <<>>),
        consistency |-> consistency]

\* value || fallback for a string-valued style
textOr(value, fallback) == IF truthyText(value) THEN value[1] ELSE fallback

extractFontsFromComponent(component) ==
    <<[family |-> textOr(customStyle(component, "fontFamily"), DefaultFontFamily),
       size |-> textOr(customStyle(component, "fontSize"), DefaultFontSize),
       weight |-> textOr(customStyle(component, "fontWeight"), DefaultFontWeight)]>>

fontKey(font) == <<font.family, font.size, font.weight>>

fontUsagesOf(keys, distinct) ==
    [u \in DOMAIN distinct |->
        [family |-> distinct[u][1], size |-> distinct[u][2], weight |-> distinct[u][3],
         count |-> occurrences(keys, distinct[u])]]

fontUsagesOfKeys(keys) == fontUsagesOf(keys, distinctInOrder(keys))

\* what the fonts.forEach loops of analyzeTypography leave in fontUsages: one
\* usage per (family, size, weight) in the order they first occur
countFonts(fonts) == fontUsagesOfKeys([i \in DOMAIN fonts |-> fontKey(fonts[i])])

totalOf(usages, key, k) ==
    sumInts([i \in DOMAIN usages |-> IF usages[i][key] = k THEN usages[i].count ELSE 0])

talliesOf(usages, key, distinct) ==
    [e \in DOMAIN distinct |-> <<distinct[e], totalOf(usages, key, distinct[e])>>]

\* a Map keyed by usage[key] that sums the counts, as its entries in insertion order
tally(usages, key) ==
    talliesOf(usages, key, distinctInOrder([i \in DOMAIN usages |-> usages[i][key]]))

\* the digits at the head of a string
RECURSIVE leadingDigits(_)
leadingDigits(str) ==
    IF str # <<>> /\ (\E d \in DOMAIN Digits : Digits[d] = Head(str))
    THEN <<Head(str)>> \o leadingDigits(Tail(str))
    ELSE <<>>

DigitValue(ch) == CHOOSE v \in 0..9 : Digits[v + 1] = ch

\* parseInt(digits, 10) of a string of digits
RECURSIVE digitsToNumber(_, _)
digitsToNumber(digits, acc) ==
    IF digits = <<>> THEN acc
    ELSE digitsToNumber(Tail(digits), acc * 10 + DigitValue(Head(digits)))

RECURSIVE power10(_)
power10(k) == IF k = 0 THEN 1 ELSE 10 * power10(k - 1)

\* parseFloat of a string that starts with digits[.digits] (no sign, no
\* exponent, no leading blanks), as a sequence: empty for NaN
parseFloat(str) ==
    LET whole == leadingDigits(str)
        rest == SubSeq(str, Len(whole) + 1, Len(str))
        fraction == IF rest # <<>> /\ Head(rest) = "." THEN leadingDigits(Tail(rest))
                    ELSE <<>>
    IN IF whole = <<>> /\ fraction = <<>> THEN <<>>
       ELSE <<RatAdd(Rat(digitsToNumber(whole, 0), 1),
                     Rat(digitsToNumber(fraction, 0), power10(Len(fraction))))>>

\* the result of Array.prototype.sort((a, b) => a - b) on distinct-or-equal numbers
sortAscending(rats) ==
    [k \in DOMAIN rats |->
        rats[CHOOSE i \in DOMAIN rats :
               Cardinality({j \in DOMAIN rats :
                               \/ RatLt(rats[j], rats[i])
                               \/ (RatEq(rats[j], rats[i]) /\ j < i)}) = k - 1]]

defaultScale ==
    << <<"xs", [text |-> <<"0",".","7","5","r","e","m">>]>>,
            <<"sm", [text |-> <<"0",".","8","7","5","r","e","m">>]>>,
            <<"base", [text |-> <<"1","r","e","m">>]>>,
            <<"lg", [text |-> <<"1",".","1","2","5","r","e","m">>]>>,
            <<"xl", [text |-> <<"1",".","2","5","r","e","m">>]>>,
            <<"2xl", [text |-> <<"1",".","5","r","e","m">>]>>,
            <<"3xl", [text |-> <<"1",".","8","7","5","r","e","m">>]>>,
            <<"4xl", [text |-> <<"2",".","2","5","r","e","m">>]>> >>

DefaultBaseSize == 16
MinDetectedSizes == 4

\* the scale, as the object's entries in key order; a detected size is
\* [px |-> n], a default one is [text |-> s]
generateTypographyScale(fontSizes) ==
    LET parsed == flatten([i \in DOMAIN fontSizes |-> parseFloat(fontSizes[i][1])])
        sortedSizes == sortAscending(parsed)
        \* sortedSizes[i] || fallback, with i counted from 0
        sizeOr(i, fallback) ==
            IF i + 1 \in DOMAIN sortedSizes /\ sortedSizes[i + 1].n # 0
            THEN sortedSizes[i + 1] ELSE fallback
        times(num, den) == RatMul(sortedSizes[4], Rat(num, den))
    IN IF Len(sortedSizes) >= MinDetectedSizes
       THEN << <<"xs", [px |-> sortedSizes[1]]>>,
               <<"sm", [px |-> sortedSizes[2]]>>,
               <<"base", [px |-> sizeOr(2, Rat(DefaultBaseSize, 1))]>>,
               <<"lg", [px |-> sortedSizes[4]]>>,
               <<"xl", [px |-> sizeOr(4, times(125, 100))]>>,
               <<"2xl", [px |-> sizeOr(5, times(15, 10))]>>,
               <<"3xl", [px |-> sizeOr(6, times(1875, 1000))]>>,
               <<"4xl", [px |-> sizeOr(7, times(225, 100))]>> >>
       ELSE defaultScale

IdealFontSizeCount == 6
MaxFontFamilies == 2
MaxFontSizes == 8

calculateTypographyConsistency(fonts) ==
    IF Len(fonts) = 0 THEN RatOne
    ELSE consistencyOfCount(Cardinality({fonts[f].size : f \in DOMAIN fonts}),
                            IdealFontSizeCount)

analyzeTypography(comps) ==
    LET fontUsages ==
            countFonts(flatten([i \in DOMAIN comps |-> extractFontsFromComponent(comps[i])]))
        fontFamilies == tally(fontUsages, "family")
        sortedFamilies ==
            sortDescending(fontFamilies, [f \in DOMAIN fontFamilies |-> fontFamilies[f][2]])
        primaryFont == IF sortedFamilies # <<>> THEN sortedFamilies[1][1]
                       ELSE DefaultFontFamily
        fontSizes == tally(fontUsages, "size")
    IN [fontUsages |-> fontUsages,
        typography |-> [fontFamily |-> primaryFont,
                        scale |-> generateTypographyScale(fontSizes)],
        reasoning |-> <<[text |-> "Primary font", font |-> primaryFont],
                        [text |-> "Found different font sizes", count |-> Len(fontSizes)]>>,
        suggestions |->
            (IF Len(sortedFamilies) > MaxFontFamilies
             THEN <<"Consider using fewer font families for better consistency">>
             ELSE <<>>)
            \o (IF Len(fontSizes) > MaxFontSizes
                THEN <<"Too many font sizes - consider using a consistent type scale">>
                ELSE <<>>),
        consistency |-> calculateTypographyConsistency(fontUsages)]

SpacingProps == <<"padding", "margin", "gap", "paddingTop", "paddingBottom", "paddingLeft",
                  "paddingRight", "marginTop", "marginBottom", "marginLeft", "marginRight">>

\* a spacing style is [number |-> n] or [text |-> s]; the number, as a
\* sequence: empty for null.  The text must match /^(\d+)(px)?$/
parseSpacingValue(value) ==
    IF "number" \in DOMAIN value THEN <<value.number>>
    ELSE LET digits == leadingDigits(value.text)
             rest == SubSeq(value.text, Len(digits) + 1, Len(value.text))
         IN IF digits # <<>> /\ rest \in {<<>>, s_px}
            THEN <<digitsToNumber(digits, 0)>> ELSE <<>>

\* if (customStyles[prop]) for a spacing style
truthySpacing(value) ==
    /\ value # <<>>
    /\ IF "number" \in DOMAIN value[1] THEN value[1].number # 0 ELSE value[1].text # <<>>

extractSpacingFromComponent(component) ==
    flatten([p \in DOMAIN SpacingProps |->
        LET value == customStyle(component, SpacingProps[p])
        IN IF truthySpacing(value) /\ parseSpacingValue(value[1]) # <<>>
           THEN <<[value |-> parseSpacingValue(value[1])[1], context |-> SpacingProps[p]]>>
           ELSE <<>>])

spacingUsageOf(spacings, value) ==
    [value |-> value,
     count |-> Cardinality({i \in DOMAIN spacings : spacings[i].value = value}),
     contexts |-> contextsOf(filterSeq(spacings,
                                       {i \in DOMAIN spacings : spacings[i].value = value}))]

spacingUsagesOf(spacings, distinct) ==
    [u \in DOMAIN distinct |-> spacingUsageOf(spacings, distinct[u])]

\* what the spacings.forEach loops of analyzeSpacing leave in spacingUsages
countSpacings(spacings) ==
    spacingUsagesOf(spacings, distinctInOrder([i \in DOMAIN spacings |-> spacings[i].value]))

DefaultBaseUnit == 4
SmallSpacingMax == 16

generateSpacingScale(baseUnit) ==
    << <<"xs", baseUnit>>, <<"sm", baseUnit * 2>>, <<"md", baseUnit * 4>>,
       <<"lg", baseUnit * 6>>, <<"xl", baseUnit * 8>>, <<"2xl", baseUnit * 12>>,
       <<"3xl", baseUnit * 16>> >>

calculateSpacingConsistency(spacings, baseUnit) ==
    IF Len(spacings) = 0 THEN RatOne
    ELSE Rat(Cardinality({s \in DOMAIN spacings : spacings[s].value % baseUnit = 0}),
             Len(spacings))

analyzeSpacing(comps) ==
    LET spacingUsages ==
            countSpacings(
                flatten([i \in DOMAIN comps |-> extractSpacingFromComponent(comps[i])]))
        small == filterSeq(spacingUsages,
                    {s \in DOMAIN spacingUsages :
                        spacingUsages[s].value > 0 /\ spacingUsages[s].value <= SmallSpacingMax})
        smallSpacings == sortDescending(small, [s \in DOMAIN small |-> small[s].count])
        baseUnit == IF smallSpacings # <<>> THEN smallSpacings[1].value ELSE DefaultBaseUnit
        consistency == calculateSpacingConsistency(spacingUsages, baseUnit)
    IN [spacingUsages |-> spacingUsages,
        spacing |-> [unit |-> baseUnit, scale |-> generateSpacingScale(baseUnit)],
        reasoning |-> <<[text |-> "Base spacing unit", px |-> baseUnit],
                        [text |-> "Found unique spacing values",
                         count |-> Len(spacingUsages)]>>,
        suggestions |-> IF RatLt(consistency, ConsolidateThreshold)
                        THEN <<"Use multiples of the base unit for consistent spacing">>
                        ELSE <<>>,
        consistency |-> consistency]

\* the style keys that name a state: key.split(':') of 'hover:', 'focus:', 'active:'
stateKeyParts(key) ==
    IF key = "hover:color" THEN <<"hover", "color">>
    ELSE IF key = "focus:borderColor" THEN <<"focus", "borderColor">>
    ELSE IF key = "active:backgroundColor" THEN <<"active", "backgroundColor">>
    ELSE <<>>

styleKeys(component) ==
    IF "customStyles" \in DOMAIN component THEN DOMAIN component.customStyles ELSE {}

\* one ComponentStyle per component type, in the order the types first occur;
\* a later component's value replaces an earlier one under the same key
extractComponentStyles(comps) ==
    LET firstOfType == {i \in DOMAIN comps :
                           \A j \in 1..(i - 1) : comps[j].componentType # comps[i].componentType}
        ofType(t) == {i \in DOMAIN comps : comps[i].componentType = t}
        lastWith(t, key) == CHOOSE i \in ofType(t) :
                                /\ key \in styleKeys(comps[i])
                                /\ \A j \in ofType(t) : key \in styleKeys(comps[j]) => j <= i
        keysOf(t) == UNION {styleKeys(comps[i]) : i \in ofType(t)}
        styleOf(t) ==
            [componentType |-> t,
             baseStyles |-> [key \in {k \in keysOf(t) : stateKeyParts(k) = <<>>} |->
                                comps[lastWith(t, key)].customStyles[key]],
             variants |-> <<>>,
             states |-> [key \in {k \in keysOf(t) : stateKeyParts(k) # <<>>} |->
                            comps[lastWith(t, key)].customStyles[key]]]
    IN [k \in 1..Cardinality(firstOfType) |->
           styleOf(comps[CHOOSE i \in firstOfType :
                            Cardinality({j \in firstOfType : j < i}) = k - 1].componentType)]

\* the lines between ':root {' and '}', each as <<property prefix, key, value>>
generateDesignSystemCSS(colors, typography, spacing) ==
    [i \in DOMAIN colors.primary |->
        <<"--color-primary-", colors.primary[i][1], colors.primary[i][2]>>]
    \o [i \in DOMAIN colors.secondary |->
        <<"--color-secondary-", colors.secondary[i][1], colors.secondary[i][2]>>]
    \o [i \in DOMAIN colors.neutral |->
        <<"--color-neutral-", colors.neutral[i][1], colors.neutral[i][2]>>]
    \o << <<"--color-success", "", colors.success>>,
          <<"--color-warning", "", colors.warning>>,
          <<"--color-error", "", colors.error>>,
          <<"--font-family", "", typography.fontFamily>> >>
    \o [i \in DOMAIN typography.scale |->
        <<"--font-size-", typography.scale[i][1], typography.scale[i][2]>>]
    \o << <<"--spacing-unit", "", spacing.unit>> >>
    \o [i \in DOMAIN spacing.scale |->
        <<"--spacing-", spacing.scale[i][1], spacing.scale[i][2]>>]

ColorWeight == Rat(4, 10)
TypographyWeight == Rat(3, 10)
SpacingWeight == Rat(3, 10)

calculateDesignSystemConfidence(colorAnalysis, typographyAnalysis, spacingAnalysis) ==
    RatAdd(RatAdd(RatMul(colorAnalysis.consistency, ColorWeight),
                  RatMul(typographyAnalysis.consistency, TypographyWeight)),
           RatMul(spacingAnalysis.consistency, SpacingWeight))

-----------------------------------------------------------------------------
(* The component batches extractDesignSystemFromComponents is run on *)

MaxPalette == 13

c_red == <<"#","e","f","4","4","4","4">>
c_yellow == <<"#","f","f","c","c","0","0">>
c_blue == <<"#","3","b","8","2","f","6">>
c_plain == <<"#","1","2","3","4","5","6">>
c_white == <<"#","f","f","f","f","f","f">>
c_named == <<"r","e","d">>
c_rgb == <<"r","g","b","(","0",",","1","2","8",",","0",")">>
f_Georgia == <<"G","e","o","r","g","i","a">>
f_bold == <<"b","o","l","d">>
f_14px == <<"1","4","p","x">>
f_18px == <<"1","8","p","x">>
f_large == <<"l","a","r","g","e">>
sp_16px == <<"1","6","p","x">>
sp_1em == <<"1","e","m">>

\* components carrying the styling the extractor reads (customStyles, which
\* the Component type does not declare, and the color props)
StyledTemplates ==
    { [componentType |-> s_button, props |-> [color |-> c_red], children |-> <<>>],
      [componentType |-> s_card, props |-> [backgroundColor |-> c_yellow], children |-> <<>>,
       customStyles |-> [backgroundColor |-> c_blue, color |-> c_plain,
                         borderColor |-> c_named, fontSize |-> f_14px,
                         padding |-> [number |-> 8], margin |-> [text |-> sp_16px]]],
      [componentType |-> s_text, props |-> [color |-> <<>>], children |-> <<>>,
       customStyles |-> [color |-> c_blue, fontFamily |-> f_Georgia, fontSize |-> f_18px,
                         fontWeight |-> f_bold, padding |-> [text |-> sp_1em],
                         gap |-> [number |-> 0], marginTop |-> [number |-> 0 - 6]]
                        @@ ("hover:color" :> c_white)],
      [componentType |-> s_input, props |-> [label |-> s_EmailLabel], children |-> <<>>,
       customStyles |-> [borderColor |-> c_rgb, fontSize |-> f_large,
                         padding |-> [number |-> 6], margin |-> [number |-> 8],
                         paddingTop |-> [number |-> 8]]],
      [componentType |-> s_card, props |-> [label |-> s_EmailLabel], children |-> <<>>,
       customStyles |-> [backgroundColor |-> c_plain, fontSize |-> <<>>]] }

StyledBatches == BatchesOf(StyledTemplates, MaxComponents)

\* the k-th color of the i-th component of a palette: all distinct, all valid
paletteColor(i, k) == <<s_hash>> \o numberToString(100000 + 2 * i + k)

\* projects of many components, each with two colors and a font size of its own
PaletteBatches ==
    { [i \in 1..n |->
          [id |-> componentId(i), componentType |-> s_button, children |-> <<>>,
           props |-> [color |-> paletteColor(i, 1)],
           customStyles |-> [backgroundColor |-> paletteColor(i, 2),
                             fontSize |-> numberToString(10 + i) \o s_px,
                             padding |-> [number |-> i]]]]
        : n \in (MaxComponents + 1)..MaxPalette }

\* a project whose five first colors are text colors and whose sixth is a
\* background color
TextHeavyBatch ==
    [i \in 1..(MaxPrimaryCandidates + 1) |->
        [id |-> componentId(i), componentType |-> s_text, children |-> <<>>,
         props |-> [label |-> s_EmailLabel],
         customStyles |-> IF i <= MaxPrimaryCandidates
                          THEN [color |-> paletteColor(i, 1)]
                          ELSE [backgroundColor |-> paletteColor(i, 2)]]]

\* a project of one component as the Component interface declares it: its
\* style values are held in `styles`
TypedStyleBatch ==
    << [id |-> componentId(1), componentType |-> s_card, children |-> <<>>,
        props |-> [label |-> s_EmailLabel],
        styles |-> [backgroundColor |-> c_blue, color |-> c_plain,
                    borderColor |-> c_rgb]] >>

-----------------------------------------------------------------------------
(* extractDesignSystemFromComponents, stage by stage *)

PendingAnalysis == [reasoning |-> <<>>, suggestions |-> <<>>, consistency |-> RatZero]
NoAnalyses == [colors |-> PendingAnalysis, typography |-> PendingAnalysis,
               spacing |-> PendingAnalysis]

InitDesign ==
    /\ entry = "extractDesignSystemFromComponents"
    /\ pc = "colors"
    /\ components \in StyledBatches \cup PaletteBatches
                     \cup {TextHeavyBatch, TypedStyleBatch}
    /\ screens = <<>>
    /\ dataModels = <<>>
    /\ reasoning = <<>>
    /\ suggestions = <<>>
    /\ totalConfidence = RatZero
    /\ stage = NoAnalyses
    /\ connections = <<>>
    /\ personas = <<>>
    /\ journeys = <<>>
    /\ uuids = 0
    /\ result = NoResult
    /\ service = NoService
    /\ db = <<>>
    /\ project = NoProject
    /\ store = NoStore

\* lines 187-188
AnalyzeColors ==
    /\ UNCHANGED <<service, db, project, store>>
    /\ entry = "extractDesignSystemFromComponents" /\ pc = "colors"
    /\ LET colorAnalysis == analyzeColorUsage(components)
       IN /\ stage' = [stage EXCEPT !.colors = colorAnalysis]
          /\ reasoning' = reasoning \o colorAnalysis.reasoning
    /\ pc' = "typography"
    /\ UNCHANGED <<entry, components, screens, dataModels, suggestions, totalConfidence,
                   connections, personas, journeys, uuids, result>>

\* lines 191-192
AnalyzeTypography ==
    /\ UNCHANGED <<service, db, project, store>>
    /\ entry = "extractDesignSystemFromComponents" /\ pc = "typography"
    /\ LET typographyAnalysis == analyzeTypography(components)
       IN /\ stage' = [stage EXCEPT !.typography = typographyAnalysis]
          /\ reasoning' = reasoning \o typographyAnalysis.reasoning
    /\ pc' = "spacing"
    /\ UNCHANGED <<entry, components, screens, dataModels, suggestions, totalConfidence,
                   connections, personas, journeys, uuids, result>>

\* lines 195-196
AnalyzeSpacing ==
    /\ UNCHANGED <<service, db, project, store>>
    /\ entry = "extractDesignSystemFromComponents" /\ pc = "spacing"
    /\ LET spacingAnalysis == analyzeSpacing(components)
       IN /\ stage' = [stage EXCEPT !.spacing = spacingAnalysis]
          /\ reasoning' = reasoning \o spacingAnalysis.reasoning
    /\ pc' = "styles"
    /\ UNCHANGED <<entry, components, screens, dataModels, suggestions, totalConfidence,
                   connections, personas, journeys, uuids, result>>

\* lines 199-245
ReturnDesignSystem ==
    /\ UNCHANGED <<service, db, project, store>>
    /\ entry = "extractDesignSystemFromComponents" /\ pc = "styles"
    /\ LET componentStyles == extractComponentStyles(components)
           allReasoning == Append(reasoning, [text |-> "Extracted styles for component types",
                                              count |-> Len(componentStyles)])
           confidence == calculateDesignSystemConfidence(stage.colors, stage.typography,
                                                         stage.spacing)
           allSuggestions == suggestions \o stage.colors.suggestions
                             \o stage.typography.suggestions \o stage.spacing.suggestions
           designSystem ==
               [id |-> uuids + 1,
                projectId |-> ProjectId,
                colors |-> stage.colors.colors,
                typography |-> stage.typography.typography,
                spacing |-> stage.spacing.spacing,
                componentStyles |-> componentStyles,
                generatedCSS |-> generateDesignSystemCSS(stage.colors.colors,
                                                         stage.typography.typography,
                                                         stage.spacing.spacing),
                version |-> 1]
       IN /\ reasoning' = allReasoning
          /\ suggestions' = allSuggestions
          /\ totalConfidence' = confidence
          /\ result' = [status |-> "returned",
                        data |-> designSystem,
                        confidence |-> confidence,
                        reasoning |-> allReasoning,
                        suggestions |-> allSuggestions]
    /\ uuids' = uuids + 1
    /\ pc' = "done"
    /\ UNCHANGED <<entry, components, screens, dataModels, stage, connections, personas,
                   journeys>>

NextDesign ==
    \/ AnalyzeColors
    \/ AnalyzeTypography
    \/ AnalyzeSpacing
    \/ ReturnDesignSystem

SpecDesign == InitDesign /\ [][NextDesign]_vars

-----------------------------------------------------------------------------
(* extractDesignSystemFromComponents called a second time on the same list *)

\* the caller has made no call yet but the one in progress
FirstCall == [pc |-> "first", previous |-> NoResult, analyses |-> NoAnalyses]

InitDesignAgain ==
    /\ entry = "extractDesignSystemFromComponents"
    /\ pc = "colors"
    /\ components \in StyledBatches \cup PaletteBatches
    /\ screens = <<>>
    /\ dataModels = <<>>
    /\ reasoning = <<>>
    /\ suggestions = <<>>
    /\ totalConfidence = RatZero
    /\ stage = NoAnalyses
    /\ connections = <<>>
    /\ personas = <<>>
    /\ journeys = <<>>
    /\ uuids = 0
    /\ result = NoResult
    /\ service = NoService
    /\ db = <<>>
    /\ project = FirstCall
    /\ store = NoStore

\* the first call has returned: the caller keeps what it returned and calls the
\* function again with the same list, lines 183-184 starting anew
ExtractAgain ==
    /\ entry = "extractDesignSystemFromComponents" /\ pc = "done"
    /\ project.pc = "first"
    /\ project' = [pc |-> "second", previous |-> result, analyses |-> stage]
    /\ pc' = "colors"
    /\ reasoning' = <<>>
    /\ suggestions' = <<>>
    /\ totalConfidence' = RatZero
    /\ stage' = NoAnalyses
    /\ result' = NoResult
    /\ UNCHANGED <<entry, components, screens, dataModels, connections, personas,
                   journeys, uuids, service, db, store>>

NextDesignAgain ==
    \/ AnalyzeColors
    \/ AnalyzeTypography
    \/ AnalyzeSpacing
    \/ ReturnDesignSystem
    \/ ExtractAgain

SpecDesignAgain == InitDesignAgain /\ [][NextDesignAgain]_vars

-----------------------------------------------------------------------------
(* The inference service: services/inference, over services/database.service *)

getDefaultDesignSystem(uuid) ==
    [id |-> uuid,
     projectId |-> ProjectId,
     colors |->
        [primary |-> << <<50, <<"#","e","f","f","6","f","f">>>>, <<100, <<"#","d","b","e","a","f","e">>>>, <<200, <<"#","b","f","d","b","f","e">>>>,
                        <<300, <<"#","9","3","c","5","f","d">>>>, <<400, <<"#","6","0","a","5","f","a">>>>, <<500, <<"#","3","b","8","2","f","6">>>>,
                        <<600, <<"#","2","5","6","3","e","b">>>>, <<700, <<"#","1","d","4","e","d","8">>>>, <<800, <<"#","1","e","4","0","a","f">>>>,
                        <<900, <<"#","1","e","3","a","8","a">>>> >>,
         secondary |-> << <<50, <<"#","f","a","f","5","f","f">>>>, <<100, <<"#","f","3","e","8","f","f">>>>, <<200, <<"#","e","9","d","5","f","f">>>>,
                          <<300, <<"#","d","8","b","4","f","e">>>>, <<400, <<"#","c","0","8","4","f","c">>>>, <<500, <<"#","a","8","5","5","f","7">>>>,
                          <<600, <<"#","9","3","3","3","e","a">>>>, <<700, <<"#","7","c","3","a","e","d">>>>, <<800, <<"#","6","b","2","1","a","8">>>>,
                          <<900, <<"#","5","8","1","c","8","7">>>> >>,
         neutral |-> generateNeutralScale,
         success |-> DefaultSuccess,
         warning |-> DefaultWarning,
         error |-> DefaultError],
     typography |-> [fontFamily |-> DefaultFontFamily, scale |-> defaultScale],
     spacing |-> [unit |-> DefaultBaseUnit, scale |-> generateSpacingScale(DefaultBaseUnit)],
     componentStyles |-> <<>>,
     generatedCSS |-> <<>>,
     version |-> 1]

\* the service method that wraps a library entry point
serviceMethod(e) ==
    IF e = "inferDataModelsFromComponents" THEN "inferDataModels"
    ELSE IF e = "extractDesignSystemFromComponents" THEN "extractDesignSystem"
    ELSE "generateUserJourneys"

\* one table that every method saves into
tableShared(method) == "dataModels"

\* the table a service method saves into
tableOf(method) ==
    IF method = "inferDataModels" THEN "dataModels"
    ELSE IF method = "extractDesignSystem" THEN "designSystems"
    ELSE "userJourneys"

\* the records a method saves, in the order of its create calls
recordsToSave(method, res) ==
    IF method = "extractDesignSystem" THEN <<res.data>> ELSE res.data

\* the row db.<table>.add receives from create: the record under a new id
storedRow(table, record, uuid) ==
    [table |-> table, id |-> uuid, record |-> [record EXCEPT !.id = uuid]]

\* a catch block that hands on what the library function returned
inferredResult(method, uuid) == result

\* the object a method's catch block returns
degradedResult(method, uuid) ==
    IF method = "inferDataModels"
    THEN [status |-> "returned", data |-> <<>>, confidence |-> RatZero,
          reasoning |-> <<"Failed to analyze components">>, suggestions |-> <<>>]
    ELSE IF method = "extractDesignSystem"
    THEN [status |-> "returned", data |-> getDefaultDesignSystem(uuid),
          confidence |-> RatZero,
          reasoning |-> <<"Failed to analyze component styles">>, suggestions |-> <<>>]
    ELSE [status |-> "returned", data |-> <<>>, confidence |-> RatZero,
          reasoning |-> <<"Failed to analyze screen flows">>, suggestions |-> <<>>]

\* a method has been called and awaits its library function
ServiceCalled(method) ==
    [name |-> method, pc |-> "inferring", creates |-> 0, failedAt |-> 0,
     toSave |-> <<>>, resolved |-> NoResult]

InitService ==
    /\ \/ /\ entry = "inferDataModelsFromComponents" /\ pc = "forms"
          /\ components \in ComponentBatches /\ screens = <<>>
          /\ stage = NoStages
       \/ /\ entry = "extractDesignSystemFromComponents" /\ pc = "colors"
          /\ components \in StyledBatches \cup PaletteBatches /\ screens = <<>>
          /\ stage = NoAnalyses
       \/ /\ entry = "generateUserJourneysFromScreens" /\ pc = "connections"
          /\ components = <<>> /\ screens \in ScreenLists \cup LongScreenLists
          /\ stage = [persona |-> 1]
    /\ dataModels = <<>>
    /\ reasoning = <<>>
    /\ suggestions = <<>>
    /\ totalConfidence = RatZero
    /\ connections = <<>>
    /\ personas = <<>>
    /\ journeys = <<>>
    /\ uuids = 0
    /\ result = NoResult
    /\ service = ServiceCalled(serviceMethod(entry))
    /\ db = <<>>
    /\ project = NoProject
    /\ store = NoStore

engineUnchanged ==
    UNCHANGED <<entry, pc, components, screens, dataModels, reasoning, suggestions,
                totalConfidence, stage, connections, personas, journeys, result, project,
                store>>

\* the awaited library promise fulfils: the loop over result.data starts
AwaitResult ==
    /\ service.pc = "inferring" /\ pc = "done"
    /\ service' = [service EXCEPT !.pc = "saving",
                                  !.toSave = recordsToSave(service.name, result)]
    /\ UNCHANGED <<uuids, db>>
    /\ engineUnchanged

\* create(record) succeeds: the row is added under a new id
CreateSucceeds ==
    /\ service.pc = "saving" /\ service.creates < Len(service.toSave)
    /\ uuids' = uuids + 1
    /\ db' = Append(db, storedRow(tableOf(service.name),
                                  service.toSave[service.creates + 1], uuids + 1))
    /\ service' = [service EXCEPT !.creates = @ + 1]
    /\ engineUnchanged

\* a loop that swallows the rejection and goes on to the next record
CreateFailsLoopContinues ==
    /\ service.pc = "saving" /\ service.creates < Len(service.toSave)
    /\ service' = [service EXCEPT !.creates = @ + 1,
                                  !.failedAt = IF @ = 0 THEN service.creates + 1 ELSE @]
    /\ UNCHANGED <<uuids, db>>
    /\ engineUnchanged

\* create(record) rejects (db.<table>.add fails): the catch block returns
CreateFails ==
    /\ service.pc = "saving" /\ service.creates < Len(service.toSave)
    /\ uuids' = uuids + 1 + (IF service.name = "extractDesignSystem" THEN 1 ELSE 0)
    /\ service' = [service EXCEPT !.creates = @ + 1,
                                  !.failedAt = service.creates + 1,
                                  !.pc = "resolved",
                                  !.resolved = degradedResult(service.name, uuids + 2)]
    /\ UNCHANGED db
    /\ engineUnchanged

\* the awaited library promise rejects: the catch block returns
CatchInferenceError ==
    /\ service.pc = "inferring" /\ pc = "threw"
    /\ uuids' = uuids + (IF service.name = "extractDesignSystem" THEN 1 ELSE 0)
    /\ service' = [service EXCEPT !.pc = "resolved",
                                  !.resolved = degradedResult(service.name, uuids + 1)]
    /\ UNCHANGED db
    /\ engineUnchanged

\* every record is saved: return result
ReturnResult ==
    /\ service.pc = "saving" /\ service.creates = Len(service.toSave)
    /\ service' = [service EXCEPT !.pc = "resolved", !.resolved = result]
    /\ UNCHANGED <<uuids, db>>
    /\ engineUnchanged

NextService ==
    \/ AnalyzeForms \/ AnalyzeLists \/ AnalyzeCards \/ DetectRelationships
    \/ ReturnDataModels
    \/ AnalyzeColors \/ AnalyzeTypography \/ AnalyzeSpacing \/ ReturnDesignSystem
    \/ ReturnNoScreens \/ DetectConnections \/ IdentifyPersonas
    \/ GeneratePersonaJourneys \/ ReturnJourneys
    \/ AwaitResult \/ CreateSucceeds \/ CreateFails \/ CatchInferenceError \/ ReturnResult

SpecService == InitService /\ [][NextService]_vars

-----------------------------------------------------------------------------
(* analyzeProject: the three service methods started together by Promise.all *)

Methods == {"inferDataModels", "extractDesignSystem", "generateUserJourneys"}

s_search == <<"s","e","a","r","c","h">>
s_header == <<"h","e","a","d","e","r">>

DataModelConfidenceFloor == Rat(7, 10)
DesignConfidenceFloor == Rat(8, 10)
MinComponentTypes == 5

ClearerRelationshipsAdvice == "Consider defining clearer data relationships between components"
DesignConsistencyAdvice ==
    "Improve design consistency by using unified color palette and spacing"
NavigationAdvice == "Add clear navigation between screens to create user journeys"
LandingAdvice == "Consider adding a landing page for better user onboarding"
SettingsAdvice == "Add a settings screen for user preferences"
DiversityAdvice == "Diversify your UI with more component types"

\* advice on the screens only
structuralSuggestions(dataModelsResult, designSystemResult, userJourneysResult, scr, comps) ==
    (IF \A i \in DOMAIN scr : scr[i].type # "landing" THEN <<LandingAdvice>> ELSE <<>>)
    \o (IF \A i \in DOMAIN scr : scr[i].type # "settings" THEN <<SettingsAdvice>> ELSE <<>>)

generateImprovementSuggestions(dataModelsResult, designSystemResult, userJourneysResult, scr, comps) ==
    (IF RatLt(dataModelsResult.confidence, DataModelConfidenceFloor)
     THEN <<ClearerRelationshipsAdvice>> ELSE <<>>)
    \o (IF RatLt(designSystemResult.confidence, DesignConfidenceFloor)
        THEN <<DesignConsistencyAdvice>> ELSE <<>>)
    \o (IF Len(userJourneysResult.data) = 0 THEN <<NavigationAdvice>> ELSE <<>>)
    \o (IF \A i \in DOMAIN scr : scr[i].type # "landing" THEN <<LandingAdvice>> ELSE <<>>)
    \o (IF \A i \in DOMAIN scr : scr[i].type # "settings" THEN <<SettingsAdvice>> ELSE <<>>)
    \o (IF Cardinality({comps[i].componentType : i \in DOMAIN comps}) < MinComponentTypes
        THEN <<DiversityAdvice>> ELSE <<>>)

\* the screens databaseService.screens.getByProject resolves with
ProjectScreenLists ==
    { <<>>,
      <<withId(ScreenTemplate(n_Home, "landing", r_path, TRUE), screenId(1))>>,
      <<withId(ScreenTemplate(n_Home, "landing", r_path, TRUE), screenId(1)),
        withId(ScreenTemplate(n_Login, "form", r_path, FALSE), screenId(2))>>,
      <<withId(ScreenTemplate(n_Items, "list", r_path, FALSE), screenId(1)),
        withId(ScreenTemplate(n_Settings, "settings", r_path, FALSE), screenId(2))>>,
      <<withId(ScreenTemplate(n_Profile, "profile", r_path, FALSE), screenId(1)),
        withId(ScreenTemplate(n_Settings, "settings", r_path, FALSE), screenId(2))>> }

formAt(label, position) ==
    [componentType |-> s_input, props |-> [label |-> label], children |-> <<>>,
     position |-> position]

plain(componentType) == [componentType |-> componentType, props |-> <<>>, children |-> <<>>]

\* a component with a font size of its own among its custom styles
sized(template, px) ==
    [key \in DOMAIN template \cup {"customStyles"} |->
        IF key = "customStyles" THEN [fontSize |-> numberToString(px) \o s_px]
        ELSE template[key]]

withIds(templates) == [i \in DOMAIN templates |-> withId(templates[i], componentId(i))]

\* the components databaseService.components.getByScreen resolves with, collected
\* over the screens of the project
ProjectComponentLists ==
    { <<>>,
      withIds(<<formAt(s_EmailLabel, [x |-> 0, y |-> 0]),
                formAt(s_PasswordLabel, [x |-> 24, y |-> 32])>>),
      withIds(<<formAt(s_EmailLabel, [x |-> 0, y |-> 0]),
                formAt(s_PasswordLabel, [x |-> 138, y |-> 184]),
                plain(s_list)>>),
      withIds(<<[componentType |-> s_input, props |-> [label |-> s_EmailLabel],
                 children |-> <<>>],
                [componentType |-> s_input, props |-> [label |-> s_PasswordLabel],
                 children |-> <<>>]>>),
      withIds(<<[componentType |-> s_card, props |-> [backgroundColor |-> c_yellow],
                 children |-> <<>>,
                 customStyles |-> [backgroundColor |-> c_blue, fontSize |-> f_14px,
                                   padding |-> [number |-> 8]]],
                [componentType |-> s_button, props |-> [color |-> c_red],
                 children |-> <<>>]>>),
      withIds(<<sized(formAt(s_EmailLabel, [x |-> 0, y |-> 0]), 12),
                sized(plain(s_list), 14), sized(plain(s_search), 16),
                sized(plain(s_button), 18), sized(plain(s_header), 20)>>) }
    \cup { b \in PaletteBatches : Len(b) = MaxPalette }

\* a project without screens has no components
ProjectInputs ==
    { <<scr, comps>> \in ProjectScreenLists \X ProjectComponentLists :
          scr = <<>> => comps = <<>> }

\* analyzeProject has read its screens and components and starts the three methods
ProjectCalled(scr, comps) ==
    [pc |-> "calling",
     given |-> [screens |-> scr, components |-> comps],
     inferred |-> [m \in Methods |-> NoResult],
     calls |-> [m \in Methods |-> ServiceCalled(m)],
     improvements |-> <<>>]

InitProject ==
    /\ entry = "inferDataModelsFromComponents"
    /\ pc = "forms"
    /\ \E input \in ProjectInputs : screens = input[1] /\ components = input[2]
    /\ dataModels = <<>>
    /\ reasoning = <<>>
    /\ suggestions = <<>>
    /\ totalConfidence = RatZero
    /\ stage = NoStages
    /\ connections = <<>>
    /\ personas = <<>>
    /\ journeys = <<>>
    /\ uuids = 0
    /\ result = NoResult
    /\ service = NoService
    /\ db = <<>>
    /\ project = ProjectCalled(screens, components)
    /\ store = NoStore

\* the library function called by one method has run to its end (it awaits
\* nothing): the method is suspended at its await and Promise.all's array goes
\* on to call the next method
CallNextMethod ==
    /\ project.pc = "calling"
    /\ pc \in {"done", "threw"}
    /\ project' = [project EXCEPT !.inferred[serviceMethod(entry)] = result,
                                  !.pc = IF entry = "generateUserJourneysFromScreens"
                                         THEN "awaiting" ELSE @]
    /\ entry' = IF entry = "inferDataModelsFromComponents"
                THEN "extractDesignSystemFromComponents"
                ELSE "generateUserJourneysFromScreens"
    /\ pc' = IF entry = "inferDataModelsFromComponents" THEN "colors"
             ELSE IF entry = "extractDesignSystemFromComponents" THEN "connections"
             ELSE "returned"
    /\ stage' = IF entry = "inferDataModelsFromComponents" THEN NoAnalyses
                ELSE [persona |-> 1]
    /\ dataModels' = <<>>
    /\ reasoning' = <<>>
    /\ suggestions' = <<>>
    /\ totalConfidence' = RatZero
    /\ result' = NoResult
    /\ UNCHANGED <<components, screens, connections, personas, journeys, uuids,
                   service, db, store>>

projectUnchanged ==
    UNCHANGED <<entry, pc, components, screens, dataModels, reasoning, suggestions,
                totalConfidence, stage, connections, personas, journeys, result, service,
                store>>

\* the promise a method awaits has fulfilled: its loop over result.data starts
ProjectAwaitResult(m) ==
    /\ project.pc = "awaiting"
    /\ project.calls[m].pc = "inferring"
    /\ project.inferred[m].status = "returned"
    /\ project' = [project EXCEPT !.calls[m].pc = "saving",
                                  !.calls[m].toSave = recordsToSave(m, project.inferred[m])]
    /\ UNCHANGED <<uuids, db>>
    /\ projectUnchanged

\* the promise a method awaits has rejected: its catch block returns
ProjectCatchInferenceError(m) ==
    /\ project.pc = "awaiting"
    /\ project.calls[m].pc = "inferring"
    /\ project.inferred[m] = Threw
    /\ uuids' = uuids + (IF m = "extractDesignSystem" THEN 1 ELSE 0)
    /\ project' = [project EXCEPT !.calls[m].pc = "resolved",
                                  !.calls[m].resolved = degradedResult(m, uuids + 1)]
    /\ UNCHANGED db
    /\ projectUnchanged

\* one create of a method succeeds
ProjectCreateSucceeds(m) ==
    /\ project.pc = "awaiting"
    /\ project.calls[m].pc = "saving"
    /\ project.calls[m].creates < Len(project.calls[m].toSave)
    /\ uuids' = uuids + 1
    /\ db' = Append(db, storedRow(tableOf(m),
                                  project.calls[m].toSave[project.calls[m].creates + 1],
                                  uuids + 1))
    /\ project' = [project EXCEPT !.calls[m].creates = @ + 1]
    /\ projectUnchanged

\* one create of a method rejects: its catch block returns
ProjectCreateFails(m) ==
    /\ project.pc = "awaiting"
    /\ project.calls[m].pc = "saving"
    /\ project.calls[m].creates < Len(project.calls[m].toSave)
    /\ uuids' = uuids + 1 + (IF m = "extractDesignSystem" THEN 1 ELSE 0)
    /\ project' = [project EXCEPT !.calls[m].creates = @ + 1,
                                  !.calls[m].failedAt = project.calls[m].creates + 1,
                                  !.calls[m].pc = "resolved",
                                  !.calls[m].resolved = degradedResult(m, uuids + 2)]
    /\ UNCHANGED db
    /\ projectUnchanged

\* every record of a method is saved: it returns what the library returned
ProjectReturnResult(m) ==
    /\ project.pc = "awaiting"
    /\ project.calls[m].pc = "saving"
    /\ project.calls[m].creates = Len(project.calls[m].toSave)
    /\ project' = [project EXCEPT !.calls[m].pc = "resolved",
                                  !.calls[m].resolved = project.inferred[m]]
    /\ UNCHANGED <<uuids, db>>
    /\ projectUnchanged

\* Promise.all has fulfilled: lines 124-137
ReturnProjectInference ==
    /\ project.pc = "awaiting"
    /\ \A m \in Methods : project.calls[m].pc = "resolved"
    /\ project' = [project EXCEPT
          !.pc = "done",
          !.improvements = generateImprovementSuggestions(
                               project.calls["inferDataModels"].resolved,
                               project.calls["extractDesignSystem"].resolved,
                               project.calls["generateUserJourneys"].resolved,
                               screens, components)]
    /\ UNCHANGED <<uuids, db>>
    /\ projectUnchanged

NextProject ==
    \/ AnalyzeForms \/ AnalyzeLists \/ AnalyzeCards \/ DetectRelationships
    \/ ReturnDataModels
    \/ AnalyzeColors \/ AnalyzeTypography \/ AnalyzeSpacing \/ ReturnDesignSystem
    \/ ReturnNoScreens \/ DetectConnections \/ IdentifyPersonas
    \/ GeneratePersonaJourneys \/ ReturnJourneys
    \/ CallNextMethod
    \/ \E m \in Methods : ProjectAwaitResult(m)
    \/ \E m \in Methods : ProjectCatchInferenceError(m)
    \/ \E m \in Methods : ProjectCreateSucceeds(m)
    \/ \E m \in Methods : ProjectCreateFails(m)
    \/ \E m \in Methods : ProjectReturnResult(m)
    \/ ReturnProjectInference

SpecProject == InitProject /\ [][NextProject]_vars

-----------------------------------------------------------------------------
(* analyzeDataFlow *)

MaxFlowComponents == 3

FormSubmissionConfidence == Rat(8, 10)
FilterQueryConfidence == Rat(9, 10)

\* what one pass of the inner loop body pushes for components[i] and components[j]
flowsOfPair(comp1, comp2) ==
    (IF comp1.componentType = s_form /\ comp2.componentType = s_list
     THEN <<[source |-> comp1.id, target |-> comp2.id, dataType |-> "form_submission",
             confidence |-> FormSubmissionConfidence]>>
     ELSE <<>>)
    \o (IF comp1.componentType = s_search /\ comp2.componentType = s_list
        THEN <<[source |-> comp1.id, target |-> comp2.id, dataType |-> "filter_query",
                confidence |-> FilterQueryConfidence]>>
        ELSE <<>>)

\* the inner loop for one i: j from i + 1 up to the last component
flowsFrom(comps, i) ==
    flatten([k \in 1..(Len(comps) - i) |-> flowsOfPair(comps[i], comps[i + k])])

analyzeDataFlow(comps) == flatten([i \in DOMAIN comps |-> flowsFrom(comps, i)])

FlowTemplates == { plain(s_form), plain(s_list), plain(s_search), plain(s_button) }

FlowBatches == BatchesOf(FlowTemplates, MaxFlowComponents)

InitDataFlow ==
    /\ entry = "analyzeDataFlow"
    /\ pc = "flows"
    /\ components \in FlowBatches
    /\ screens = <<>>
    /\ dataModels = <<>>
    /\ reasoning = <<>>
    /\ suggestions = <<>>
    /\ totalConfidence = RatZero
    /\ stage = NoStages
    /\ connections = <<>>
    /\ personas = <<>>
    /\ journeys = <<>>
    /\ uuids = 0
    /\ result = NoResult
    /\ service = NoService
    /\ db = <<>>
    /\ project = NoProject
    /\ store = NoStore

\* lines 196-226
AnalyzeDataFlow ==
    /\ entry = "analyzeDataFlow" /\ pc = "flows"
    /\ result' = [status |-> "returned", data |-> analyzeDataFlow(components)]
    /\ pc' = "done"
    /\ UNCHANGED <<entry, components, screens, dataModels, reasoning, suggestions,
                   totalConfidence, stage, connections, personas, journeys, uuids,
                   service, db, project, store>>

NextDataFlow == AnalyzeDataFlow

SpecDataFlow == InitDataFlow /\ [][NextDataFlow]_vars

-----------------------------------------------------------------------------
(* Claims about data-model inference *)

isReturned == pc = "done" /\ result.status = "returned"

inCategory(c, category) == normalizeComponentType(c.componentType) = category

noDataComponents ==
    \A i \in DOMAIN components :
        normalizeComponentType(components[i].componentType) = "other"

\* C6: a batch with no form-, list- or card-category component never throws and
\* returns an empty model list, confidence 0 over a non-zero divisor, and at
\* least one suggestion
C6_NoDataComponentsResult ==
    (entry = "inferDataModelsFromComponents" /\ noDataComponents) =>
        /\ pc # "threw"
        /\ isReturned =>
              /\ result.data = <<>>
              /\ result.confidence.d # 0
              /\ RatEq(result.confidence, RatZero)
              /\ Len(result.suggestions) >= 1

C6_Witness ==
    /\ entry = "inferDataModelsFromComponents"
    /\ isReturned
    /\ Len(components) = MaxComponents
    /\ noDataComponents

distanceBelow(c1, c2, d) ==
    LET dx == c1.position.x - c2.position.x
        dy == c1.position.y - c2.position.y
    IN dx * dx + dy * dy < d * d

isEmailPasswordScenario ==
    /\ Len(components) = 2
    /\ \A i \in 1..2 : components[i].componentType = s_input
                       /\ "position" \in DOMAIN components[i]
    /\ components[1].props = [label |-> s_EmailLabel]
    /\ components[2].props = [label |-> s_PasswordLabel, required |-> TRUE]
    /\ distanceBelow(components[1], components[2], 50)

\* C8 as claimed: the Email/Password scenario returns exactly one model, named
\* User, with fields id, email (string, email validation), password (string,
\* required), createdAt, updatedAt and five endpoints
C8_EmailPasswordIsUser ==
    (entry = "inferDataModelsFromComponents" /\ isEmailPasswordScenario /\ pc = "done") =>
        /\ result.status = "returned"
        /\ Len(result.data) = 1
        /\ result.data[1].name = s_User
        /\ [f \in DOMAIN result.data[1].fields |-> result.data[1].fields[f].name]
              = <<s_id, s_email, s_password, s_createdAt, s_updatedAt>>
        /\ result.data[1].fields[2].type = "string"
        /\ \E v \in DOMAIN result.data[1].fields[2].validation :
              result.data[1].fields[2].validation[v].type = "email"
        /\ result.data[1].fields[3].type = "string"
        /\ result.data[1].fields[3].required
        /\ Len(result.data[1].endpoints) = 5

\* C9 as claimed: every returned model's field list starts with id and holds
\* createdAt and updatedAt
C9_IdFirstAndTimestamps ==
    (entry = "inferDataModelsFromComponents" /\ isReturned) =>
        \A m \in DOMAIN result.data :
            /\ result.data[m].fields[1].name = s_id
            /\ hasFieldNamed(result.data[m].fields, s_createdAt)
            /\ hasFieldNamed(result.data[m].fields, s_updatedAt)

positionedForms ==
    filterSeq(components,
              {i \in DOMAIN components :
                  /\ inCategory(components[i], "forms")
                  /\ "position" \in DOMAIN components[i]})

\* C10 as claimed: a form-category component without a position causes no
\* error, no model is inferred from it, and the other form components are
\* grouped into models as if it were not there
C10_MissingPositionDropped ==
    (entry = "inferDataModelsFromComponents" /\
     \E i \in DOMAIN components :
        inCategory(components[i], "forms") /\ "position" \notin DOMAIN components[i])
    => /\ pc # "threw" \/ stage.lists.threw
       /\ isReturned =>
            [m \in DOMAIN result.data |-> result.data[m].inferredFrom]
              = [m \in DOMAIN analyzeFormComponents(positionedForms, 0).models |->
                    analyzeFormComponents(positionedForms, 0).models[m].inferredFrom]

formComponents == groupComponentsByType(components, "forms")

\* the groups the returned models were inferred from, as sequences of ids
inferredGroups == [g \in DOMAIN result.data |-> result.data[g].inferredFrom]

formWithId(id) == formComponents[CHOOSE i \in DOMAIN formComponents : formComponents[i].id = id]

\* the form components no group before group g holds, by index
ungroupedBefore(g) ==
    {i \in DOMAIN formComponents :
        \A h \in 1..(g - 1) : \A k \in DOMAIN inferredGroups[h] :
            inferredGroups[h][k] # formComponents[i].id}

\* C18: when inferDataModels returns, the groups its models are inferred from
\* partition the form-category components, the first member of each group is
\* the earliest component in input order that no earlier group holds, every
\* other member is at a distance below 200 from that first member, and the
\* models are one per group of groupFormsByProximity, in order, inferred from
\* that group's ids
C18_ProximityGroupsPartition ==
    (entry = "inferDataModelsFromComponents" /\ isReturned) =>
        /\ \A i \in DOMAIN formComponents :
              Cardinality({<<g, k>> \in (DOMAIN inferredGroups) \X (1..Len(formComponents)) :
                              /\ k \in DOMAIN inferredGroups[g]
                              /\ inferredGroups[g][k] = formComponents[i].id}) = 1
        /\ \A g \in DOMAIN inferredGroups :
              /\ Len(inferredGroups[g]) >= 1
              /\ \A k \in DOMAIN inferredGroups[g] :
                    \E i \in DOMAIN formComponents :
                        formComponents[i].id = inferredGroups[g][k]
              /\ \E i \in ungroupedBefore(g) :
                    /\ \A j \in ungroupedBefore(g) : i <= j
                    /\ inferredGroups[g][1] = formComponents[i].id
              /\ \A k \in 2..Len(inferredGroups[g]) :
                    distanceBelow(formWithId(inferredGroups[g][1]),
                                  formWithId(inferredGroups[g][k]), 200)
        /\ LET groups == groupFormsByProximity(formComponents).groups
           IN /\ Len(result.data) = Len(groups)
              /\ \A g \in DOMAIN groups :
                    inferredGroups[g] = [k \in DOMAIN groups[g] |-> groups[g][k].id]

\* three form components returned as two groups: the third is within 200 of the
\* second, which is in the first group, but not of the first, which seeds it
C18_Witness ==
    /\ entry = "inferDataModelsFromComponents" /\ isReturned
    /\ Len(formComponents) = 3
    /\ Len(result.data) = 2
    /\ Len(inferredGroups[1]) = 2
    /\ distanceBelow(formComponents[2], formComponents[3], 200)
    /\ ~distanceBelow(formComponents[1], formComponents[3], 200)

\* the form stage is over and did not throw
listStageEntered ==
    /\ entry = "inferDataModelsFromComponents"
    /\ pc \notin {"forms", "lists"}
    /\ ~stage.forms.threw

\* C25 as claimed: list inference never adds, removes or changes a model: for
\* every batch, including batches where a list/grid/table component has a
\* non-empty children list, the list stage completes without error, the model
\* list after the list stage equals the model list after the form stage, and
\* each list with children contributes one reasoning entry and 0.6 (no match)
\* or 0.9 (match) to the list-stage confidence
C25_ListInferenceCompletes ==
    listStageEntered =>
        LET lists == groupComponentsByType(components, "lists")
            withChildren == Cardinality({k \in DOMAIN lists : lists[k].children # <<>>})
        IN /\ ~stage.lists.threw
           /\ stage.lists.models = stage.forms.models
           /\ Len(stage.lists.reasoning) = withChildren
           /\ \E matched \in 0..withChildren :
                 RatEq(RatMulInt(stage.lists.confidence, Max(1, Len(lists))),
                       RatAdd(RatMulInt(ListMatchConfidence, matched),
                              RatMulInt(ListNoMatchConfidence, withChildren - matched)))

-----------------------------------------------------------------------------
(* Claims about journey generation *)

stepsDistinct(steps) ==
    \A i, j \in DOMAIN steps : i # j => steps[i].screenId # steps[j].screenId

\* C1: every journey generateJourneyForGoal has built, for any persona and
\* goal over screens of distinct ids, has at most 10 steps and no two of its
\* steps have the same screenId
C1_JourneyBoundedAndAcyclic ==
    entry = "generateUserJourneysFromScreens" =>
        \A j \in DOMAIN journeys :
            /\ Len(journeys[j].steps) <= 10
            /\ stepsDistinct(journeys[j].steps)

\* a journey the step limit cut short: ten steps made, an eleventh screen
\* connected and not yet visited
C1_Witness ==
    /\ entry = "generateUserJourneysFromScreens"
    /\ Len(screens) > 10
    /\ \E j \in DOMAIN journeys :
          LET steps == journeys[j].steps
              visited == { steps[i].screenId : i \in DOMAIN steps }
          IN /\ Len(steps) = 10
             /\ \E c \in DOMAIN connections :
                   /\ connections[c].fromScreen.id = steps[10].screenId
                   /\ connections[c].toScreen.id \notin visited

journeysReturned ==
    /\ entry = "generateUserJourneysFromScreens" /\ pc = "done"
    /\ result.status = "returned"

homeLandings == {i \in DOMAIN screens : screens[i].isHomePage /\ screens[i].type = "landing"}

firstHomePage == firstIndex({i \in DOMAIN screens : screens[i].isHomePage})

\* a New User journey starts on screens[i] by clicking sign up or login
newUserJourneyFrom(i) ==
    \E j \in DOMAIN result.data :
        /\ result.data[j].persona = "New User"
        /\ result.data[j].steps[1].screenId = screens[i].id
        /\ result.data[j].steps[1].action \in {a_ClickSignUp, a_ClickLogin}

\* C11 as claimed: for every home-flagged landing screen of the list, a New
\* User journey is returned whose first step is on that screen with the action
\* 'Click sign up button' or 'Click login button'
C11_NewUserStartsOnHomeLanding ==
    journeysReturned => \A i \in homeLandings : newUserJourneyFrom(i)

\* C11 amended: when the first home-flagged screen of the list is a landing
\* screen, a New User journey is returned whose first step is on that screen
\* with the action 'Click sign up button' or 'Click login button'
C11_NewUserStartsOnFirstHome ==
    (journeysReturned /\ firstHomePage \in homeLandings) => newUserJourneyFrom(firstHomePage)

\* the first home-flagged screen is a landing screen that is not the first
\* screen of the list, and the journeys are returned
C11_Witness ==
    /\ journeysReturned
    /\ firstHomePage \in homeLandings
    /\ firstHomePage > 1
    /\ newUserJourneyFrom(firstHomePage)

connectionsDetected ==
    /\ entry = "generateUserJourneysFromScreens"
    /\ pc \in {"personas", "journeys", "done"}
    /\ Len(screens) # 0

screensOfType(type) == {i \in DOMAIN screens : screens[i].type = type}

hasEdge(i, j) == hasConnection(connections, screens[i].id, screens[j].id)

\* C19 as claimed: whenever the screen list holds a profile screen and a
\* settings screen, the detected connections hold an edge from a profile
\* screen to a settings screen and an edge from a settings screen to a profile
\* screen, and every edge the profile/settings rule added ('Settings link')
\* has confidence 0.8
C19_ProfileSettingsMutualEdges ==
    connectionsDetected =>
        /\ (screensOfType("profile") # {} /\ screensOfType("settings") # {}) =>
              /\ \E p \in screensOfType("profile"), s \in screensOfType("settings") :
                    hasEdge(p, s)
              /\ \E p \in screensOfType("profile"), s \in screensOfType("settings") :
                    hasEdge(s, p)
        /\ \A c \in DOMAIN connections :
              connections[c].triggers = <<"Settings link">> =>
                  connections[c].confidence = ProfileSettingsConfidence

routed(i) == screens[i].routePath # <<>>

carries(i, j, trigger) ==
    \E c \in DOMAIN connections :
        /\ connections[c].fromScreen.id = screens[i].id
        /\ connections[c].toScreen.id = screens[j].id
        /\ \E t \in DOMAIN connections[c].triggers : connections[c].triggers[t] = trigger

\* the rule table over the ordered pair (screens[i], screens[j]); the name
\* tests ignore letter case
ruleTableHolds(i, j) ==
    /\ (/\ screens[i].type = "landing" /\ screens[j].type = "form"
        /\ nameHas(screens[j], k_login))
          => carries(i, j, "Login button click")
    /\ (screens[i].type = "list" /\ screens[j].type = "detail")
          => carries(i, j, "Item selection")
    /\ (/\ screens[i].type = "form"
        /\ (screens[j].type = "list" \/ nameHas(screens[j], k_success)))
          => carries(i, j, "Form submission")
    /\ (screens[j].type = "settings")
          => carries(i, j, "Settings navigation")

\* C20 as claimed: for every ordered pair of distinct screens (a, b), if a is
\* a landing screen and b a form whose name contains 'login', or a is a list
\* and b a detail, or a is a form and b is a list or has a name containing
\* 'success', or b is a settings screen, the detected connections hold an edge
\* a->b carrying the corresponding trigger
C20_RuleTableOnEveryPair ==
    connectionsDetected =>
        \A i, j \in DOMAIN screens : i # j => ruleTableHolds(i, j)

\* C20 amended: the same, for every ordered pair of distinct screens that both
\* have a non-empty route path
C20_RuleTableOnRoutedPairs ==
    connectionsDetected =>
        \A i, j \in DOMAIN screens :
            (i # j /\ routed(i) /\ routed(j)) => ruleTableHolds(i, j)

\* a routed landing screen followed by a routed login form, joined by an edge
\* that carries 'Login button click'
C20_Witness ==
    /\ connectionsDetected
    /\ \E i, j \in DOMAIN screens :
          /\ i # j /\ routed(i) /\ routed(j)
          /\ screens[i].type = "landing" /\ screens[j].type = "form"
          /\ nameHas(screens[j], k_login)
          /\ carries(i, j, "Login button click")

explicitEdges ==
    {c \in DOMAIN connections :
        connections[c].triggers \notin {<<"Main navigation">>, <<"Settings link">>}}

\* the bonus of an edge in tenths, a success screen being one the 'Form
\* submission' rule recognises (name compared in lower case)
claimedBonus(fromScreen, toScreen) ==
    (IF fromScreen.type = "landing" /\ toScreen.type = "form" THEN 2 ELSE 0)
    + (IF fromScreen.type = "list" /\ toScreen.type = "detail" THEN 3 ELSE 0)
    + (IF fromScreen.type = "form" /\ nameHas(toScreen, k_success) THEN 3 ELSE 0)

\* C21 as claimed: every edge produced by an explicit rule has confidence
\* min(1, 0.5 + 0.1 x (number of its triggers) + bonus), bonus being the sum
\* of 0.2 for landing->form, 0.3 for list->detail and 0.3 for an edge from a
\* form to a screen the 'Form submission' rule recognises as a success screen
C21_ExplicitEdgeConfidence ==
    connectionsDetected =>
        \A c \in explicitEdges :
            connections[c].confidence =
                Min(10, 5 + Len(connections[c].triggers)
                          + claimedBonus(connections[c].fromScreen, connections[c].toScreen))

\* the screen step k of a journey is on
stepScreen(journey, k) ==
    screens[CHOOSE i \in DOMAIN screens : screens[i].id = journey.steps[k].screenId]

\* after step k, some connection leaves its screen for a screen no step up to
\* k is on
hasUnvisitedNext(journey, k) ==
    \E c \in DOMAIN connections :
        /\ connections[c].fromScreen.id = journey.steps[k].screenId
        /\ \A i \in 1..k : connections[c].toScreen.id # journey.steps[i].screenId

walkEndsAt(journey, k) ==
    \/ isGoalComplete(stepScreen(journey, k), journey.goal)
    \/ ~hasUnvisitedNext(journey, k)
    \/ k = MaxJourneySteps

\* C22: in every generated journey no step other than the last is on a screen
\* at which the goal is judged complete, and the walk ends at the first screen
\* that is goal-complete, or has no connection to a screen not yet visited, or
\* is the 10th step
C22_WalkEndsAtFirstStop ==
    entry = "generateUserJourneysFromScreens" =>
        \A j \in DOMAIN journeys :
            /\ \A k \in 1..(Len(journeys[j].steps) - 1) : ~walkEndsAt(journeys[j], k)
            /\ walkEndsAt(journeys[j], Len(journeys[j].steps))

\* a journey that stopped on a goal-complete screen from which an unvisited
\* screen could still be reached, and a journey that walked on to a second step
C22_Witness ==
    /\ entry = "generateUserJourneysFromScreens"
    /\ \E j \in DOMAIN journeys :
          LET n == Len(journeys[j].steps) IN
          /\ isGoalComplete(stepScreen(journeys[j], n), journeys[j].goal)
          /\ hasUnvisitedNext(journeys[j], n)
          /\ n < MaxJourneySteps
    /\ \E j \in DOMAIN journeys :
          /\ Len(journeys[j].steps) = 2
          /\ isGoalComplete(stepScreen(journeys[j], 2), journeys[j].goal)

\* the journeys returned are one for each (persona, goal) pair of the
\* identified personas, each with at least one step
oneJourneyPerGoal ==
    /\ Len(result.data) >= 1
    /\ Len(result.data) = sumInts([p \in DOMAIN personas |-> Len(personas[p].goals)])
    /\ \A p \in DOMAIN personas :
          \A g \in DOMAIN personas[p].goals :
              Cardinality({j \in DOMAIN result.data :
                              /\ result.data[j].persona = personas[p].name
                              /\ result.data[j].goal = personas[p].goals[g]}) = 1
    /\ \A j \in DOMAIN result.data : Len(result.data[j].steps) >= 1

\* C26 as claimed: for every non-empty screen list, generateUserJourneys
\* produces exactly one journey for each (persona, goal) pair of the identified
\* personas, each with at least one step: no journey is ever discarded, the
\* journey list is never empty, and the aggregate confidence is exactly 0.8
C26_OneJourneyPerGoalExactConfidence ==
    (journeysReturned /\ Len(screens) > 0) =>
        /\ oneJourneyPerGoal
        /\ result.confidence64 = JourneyConfidence64

\* C26 amended: the same journeys, and an aggregate confidence that is the
\* binary64 mean of the journeys' 0.8: within one unit in the last place of
\* 0.8, and 0.8 as a real number
C26_OneJourneyPerGoalRoundedConfidence ==
    (journeysReturned /\ Len(screens) > 0) =>
        /\ oneJourneyPerGoal
        /\ RatEq(result.confidence, JourneyConfidence)
        /\ result.confidence64.hi = JourneyConfidence64.hi
        /\ result.confidence64.exp = JourneyConfidence64.exp
        /\ abs(result.confidence64.lo - JourneyConfidence64.lo) <= 1

\* six journeys returned for two personas, whose mean is not the number 0.8
C26_Witness ==
    /\ journeysReturned
    /\ Len(personas) = 2
    /\ Len(result.data) = 6
    /\ oneJourneyPerGoal
    /\ result.confidence64 # JourneyConfidence64

\* C28: in every generated journey the steps are numbered 1, 2, ..., n in list
\* order, the first step is on the start screen chosen for the goal, and for
\* each pair of consecutive steps the connection list contains an edge from
\* the earlier step's screen to the later step's screen
C28_StepsFollowConnections ==
    entry = "generateUserJourneysFromScreens" =>
        \A j \in DOMAIN journeys :
            LET steps == journeys[j].steps IN
            /\ \A k \in DOMAIN steps : steps[k].stepNumber = k
            /\ Len(steps) >= 1
            /\ steps[1].screenId = screens[findStartScreen(screens, journeys[j].goal)].id
            /\ \A k \in 1..(Len(steps) - 1) :
                  hasConnection(connections, steps[k].screenId, steps[k + 1].screenId)

\* a journey of two steps that starts on the second screen of the list and
\* follows an edge to the first
C28_Witness ==
    /\ entry = "generateUserJourneysFromScreens"
    /\ Len(screens) = 2
    /\ \E j \in DOMAIN journeys :
          /\ Len(journeys[j].steps) = 2
          /\ journeys[j].steps[1].screenId = screens[2].id
          /\ journeys[j].steps[2].screenId = screens[1].id
          /\ journeys[j].steps[2].stepNumber = 2
          /\ hasConnection(connections, screens[2].id, screens[1].id)

-----------------------------------------------------------------------------
(* Claims about the service entry points *)

resolved == service.pc = "resolved"

InUnitTenths(c) == 0 <= c /\ c <= 10

\* C2: every confidence value lies in [0, 1]: the aggregate each entry point
\* returns, each model's and each journey's confidence, the color, typography
\* and spacing consistency scores, and each screen connection's confidence
C2_ConfidencesInUnitInterval ==
    /\ resolved => InUnitInterval(service.resolved.confidence)
    /\ result.status = "returned" => InUnitInterval(result.confidence)
    /\ \A m \in DOMAIN dataModels : InUnitInterval(dataModels[m].confidence)
    /\ \A j \in DOMAIN journeys : InUnitInterval(journeys[j].confidence)
    /\ \A c \in DOMAIN connections : InUnitTenths(connections[c].confidence)
    /\ entry = "extractDesignSystemFromComponents" =>
          /\ InUnitInterval(stage.colors.consistency)
          /\ InUnitInterval(stage.typography.consistency)
          /\ InUnitInterval(stage.spacing.consistency)

\* a design system extracted from more than twice the ideal number of colors,
\* where only the clamp keeps the color consistency at 0
C2_Witness ==
    /\ resolved /\ service.name = "extractDesignSystem" /\ service.failedAt = 0
    /\ Len(stage.colors.colorUsages) > 2 * IdealColorCount
    /\ stage.colors.consistency = RatZero
    /\ RatLt(RatZero, service.resolved.confidence)

\* C3: with no components (and no screens for journey generation) each of the
\* three entry points returns, with confidence 0 and a suggestions list that
\* is not empty
C3_EmptyInputConfidenceZero ==
    (resolved /\ service.failedAt = 0 /\ components = <<>> /\ screens = <<>>) =>
        /\ service.resolved.status = "returned"
        /\ service.resolved.confidence = RatZero
        /\ service.resolved.suggestions # <<>>

\* C4: when a create call fails while inferDataModels or generateUserJourneys
\* saves its records, the method resolves with an empty payload, confidence 0
\* and exactly one reasoning string
C4_CreateFailureDegrades ==
    (service.failedAt > 0 /\ service.name \in {"inferDataModels", "generateUserJourneys"}) =>
        /\ resolved
        /\ service.resolved.status = "returned"
        /\ service.resolved.data = <<>>
        /\ service.resolved.confidence = RatZero
        /\ Len(service.resolved.reasoning) = 1

\* inferDataModels whose second create call failed
C4_Witness ==
    /\ resolved /\ service.name = "inferDataModels"
    /\ service.failedAt = 2 /\ Len(service.toSave) = 2
    /\ result.status = "returned" /\ Len(result.data) = 2

\* C5: when the k-th create call fails, the records created by calls 1..k-1
\* are the rows in storage, and no create call is made for records k+1..n
C5_FailureKeepsEarlierAbortsLater ==
    service.failedAt > 0 =>
        /\ Len(db) = service.failedAt - 1
        /\ \A i \in DOMAIN db :
              /\ db[i].table = tableOf(service.name)
              /\ db[i].record = [service.toSave[i] EXCEPT !.id = db[i].id]
        /\ service.creates = service.failedAt

\* three or more journeys to save, the second create call failed
C5_Witness ==
    /\ resolved /\ service.name = "generateUserJourneys"
    /\ service.failedAt = 2 /\ Len(service.toSave) >= 3
    /\ Len(db) = 1

\* db.<table>.get(id): the rows of the table stored under the id
getRows(table, id) == {i \in DOMAIN db : db[i].table = table /\ db[i].id = id}

\* C29 as claimed: after inferDataModels, generateUserJourneys or
\* extractDesignSystem resolves with a non-degraded result, every record of
\* the returned payload is stored in the database under the id it carries in
\* the payload (get(id) returns it)
C29_PayloadStoredUnderItsId ==
    (resolved /\ service.failedAt = 0 /\ result.status = "returned") =>
        LET payload == recordsToSave(service.name, service.resolved) IN
        \A k \in DOMAIN payload :
            \E i \in getRows(tableOf(service.name), payload[k].id) :
                db[i].record = payload[k]

-----------------------------------------------------------------------------
(* Claims about design-system extraction *)

designReturned ==
    /\ entry = "extractDesignSystemFromComponents" /\ pc = "done"
    /\ result.status = "returned"

colorsAnalyzed ==
    /\ entry = "extractDesignSystemFromComponents"
    /\ pc \in {"typography", "spacing", "styles", "done"}

\* the score the formula max(0, 1 - |n - 10| / 10) gives for n colors
formulaScore(n) == RatMax(RatZero, RatSub(RatOne, Rat(abs(n - 10), 10)))

hasConsolidateSuggestion ==
    \E i \in DOMAIN stage.colors.suggestions :
        stage.colors.suggestions[i]
            = "Consider consolidating colors - too many unique colors detected"

\* C14 as claimed: for every number n >= 0 of distinct valid colors observed,
\* the color consistency score is max(0, 1 - |n - 10| / 10), and the suggestion
\* to consolidate colors is present whenever that score is below 0.7
C14_ColorConsistencyFormula ==
    colorsAnalyzed =>
        LET n == Len(stage.colors.colorUsages)
        IN /\ stage.colors.consistency = formulaScore(n)
           /\ RatLt(formulaScore(n), Rat(7, 10)) => hasConsolidateSuggestion

ScaleKeys == {50, 100, 200, 300, 400, 500, 600, 700, 800, 900}

\* the entries of a scale are one per key of ScaleKeys
hasTheTenKeys(scale) ==
    /\ Len(scale) = 10
    /\ {scale[i][1] : i \in DOMAIN scale} = ScaleKeys

\* C15: the primary, secondary and neutral color scales of every returned
\* design system have exactly the ten keys 50, 100, 200, ..., 900
C15_ScalesHaveTenKeys ==
    designReturned =>
        /\ hasTheTenKeys(result.data.colors.primary)
        /\ hasTheTenKeys(result.data.colors.secondary)
        /\ hasTheTenKeys(result.data.colors.neutral)

\* a design system is returned whose primary scale is built on an observed color
C15_Witness ==
    /\ designReturned
    /\ Len(components) >= 1
    /\ \E i \in DOMAIN result.data.colors.primary :
          /\ result.data.colors.primary[i][1] = 500
          /\ result.data.colors.primary[i][2] # DefaultPrimary

colorsChosen == entry = "extractDesignSystemFromComponents" /\ pc # "colors"

\* every {color, context} the extractor observes, in component order
observedColors ==
    flatten([i \in DOMAIN components |-> extractColorsFromComponent(components[i])])

\* the observed colors with, for each, how often it is observed, where it is
\* first observed and whether one of its contexts is 'background' or 'button'
frequencyTable(observed) ==
    [color \in {observed[i].color : i \in DOMAIN observed} |->
        LET at == {i \in DOMAIN observed : observed[i].color = color} IN
        [count |-> Cardinality(at),
         first |-> firstIndex(at),
         inContext |-> \E i \in at : observed[i].context \in {s_background, s_button}]]

\* the position of a color in the frequency table, from 0: colors of equal
\* count keep the order in which they were first observed
colorRanks(table) ==
    [color \in DOMAIN table |->
        Cardinality({other \in DOMAIN table :
                        \/ table[other].count > table[color].count
                        \/ (table[other].count = table[color].count
                            /\ table[other].first < table[color].first)})]

\* the primary color chosen is `color`
primaryIs(color) ==
    stage.colors.primaryColor # <<>> /\ stage.colors.primaryColor[1].color = color

defaultPrimaryChosen ==
    /\ stage.colors.primaryColor = <<>>
    /\ stage.colors.colors.primary = generateColorScale(DefaultPrimary)

\* C23 as claimed: the primary color is a most frequent one of the observed
\* colors whose contexts include 'background' or 'button'; only when no
\* observed color has such a context is it the most frequent color overall,
\* and the default #3b82f6 when no color is observed
C23_PrimaryIsMostFrequentInContext ==
    colorsChosen =>
        LET table == frequencyTable(observedColors)
            rank == colorRanks(table)
            inContext == {color \in DOMAIN table : table[color].inContext}
        IN
        /\ inContext # {} =>
              \E color \in inContext :
                  /\ primaryIs(color)
                  /\ \A other \in inContext : table[other].count <= table[color].count
        /\ (inContext = {} /\ DOMAIN table # {}) =>
              \E color \in DOMAIN table : primaryIs(color) /\ rank[color] = 0
        /\ DOMAIN table = {} => defaultPrimaryChosen

\* C23 amended: the primary color is the first, in the frequency table, of the
\* five most frequent colors whose contexts include 'background' or 'button';
\* when none of those five has such a context it is the most frequent color
\* overall, and the default #3b82f6 when no color is observed
C23_PrimaryAmongFiveMostFrequent ==
    colorsChosen =>
        LET table == frequencyTable(observedColors)
            rank == colorRanks(table)
            candidates == {color \in DOMAIN table :
                              rank[color] < MaxPrimaryCandidates /\ table[color].inContext}
        IN
        /\ candidates # {} =>
              \E color \in candidates :
                  /\ primaryIs(color)
                  /\ \A other \in candidates : rank[color] <= rank[other]
        /\ (candidates = {} /\ DOMAIN table # {}) =>
              \E color \in DOMAIN table : primaryIs(color) /\ rank[color] = 0
        /\ DOMAIN table = {} => defaultPrimaryChosen

\* a background color observed beyond the five most frequent colors, none of
\* which is on a background or a button, so that the most frequent color is
\* chosen
C23_Witness ==
    /\ colorsChosen
    /\ LET table == frequencyTable(observedColors)
           rank == colorRanks(table)
       IN /\ \E color \in DOMAIN table :
                table[color].inContext /\ rank[color] >= MaxPrimaryCandidates
          /\ \A color \in DOMAIN table :
                rank[color] < MaxPrimaryCandidates => ~table[color].inContext
          /\ \E color \in DOMAIN table : primaryIs(color) /\ rank[color] = 0

\* the context under which a color held under a style key is counted
contextOfStyleKey(key) ==
    CASE key = "backgroundColor" -> s_background
      [] key = "color" -> s_text
      [] key = "borderColor" -> s_border

\* the frequency table counts `color` with `context` among its contexts
countedWithContext(color, context) ==
    \E u \in DOMAIN stage.colors.colorUsages :
        /\ stage.colors.colorUsages[u].color = color
        /\ stage.colors.colorUsages[u].count >= 1
        /\ \E x \in DOMAIN stage.colors.colorUsages[u].contexts :
              stage.colors.colorUsages[u].contexts[x] = context

\* C24 as claimed: a valid color value held in a Component's styles map under
\* backgroundColor, color or borderColor is counted in the color frequency
\* table of extractDesignSystem, with context background, text or border
\* respectively
C24_StylesColorsCounted ==
    colorsChosen =>
        \A i \in DOMAIN components :
            "styles" \in DOMAIN components[i] =>
                \A key \in {"backgroundColor", "color", "borderColor"}
                             \cap DOMAIN components[i].styles :
                    isValidColor(components[i].styles[key]) =>
                        countedWithContext(components[i].styles[key], contextOfStyleKey(key))

-----------------------------------------------------------------------------
(* Claims about analyzeProject *)

rowsOf(table) == filterSeq(db, {i \in DOMAIN db : db[i].table = table})

\* how many creates of a call have succeeded
savedBy(call) == IF call.failedAt = 0 THEN call.creates ELSE call.creates - 1

\* what a method resolves with when nothing but its own steps decides it: what
\* its library function returned once every create succeeded, the result of
\* its catch block otherwise
resolvesAlone(m) ==
    LET call == project.calls[m]
    IN IF project.inferred[m].status = "returned" /\ call.failedAt = 0
       THEN call.resolved = project.inferred[m]
       ELSE /\ call.resolved.confidence = RatZero
            /\ Len(call.resolved.reasoning) = 1
            /\ call.resolved.suggestions = <<>>
            /\ m # "extractDesignSystem" => call.resolved.data = <<>>

\* the table of a method holds the records the method has saved, in its order
savesAlone(m) ==
    LET call == project.calls[m]
        rows == rowsOf(tableOf(m))
    IN /\ Len(rows) = savedBy(call)
       /\ \A k \in DOMAIN rows : rows[k].record = [call.toSave[k] EXCEPT !.id = rows[k].id]

\* C12: while and after the three methods started by analyzeProject run
\* interleaved, the components and screens are the ones that were read, every
\* table holds exactly the records its own method has saved so far in that
\* method's order, every row has an id of its own, and a method that has
\* resolved has resolved with what it resolves with when run on its own
C12_ConcurrentMethodsDoNotInterfere ==
    project.pc \in {"awaiting", "done"} =>
        /\ components = project.given.components
        /\ screens = project.given.screens
        /\ \A m \in Methods :
              /\ savesAlone(m)
              /\ project.calls[m].pc = "resolved" => resolvesAlone(m)
        /\ \A i, j \in DOMAIN db : db[i].id = db[j].id => i = j

\* analyzeProject has returned after creates of the three methods interleaved:
\* a journey saved, then a data model, then the design system, then a journey
C12_Witness ==
    /\ project.pc = "done"
    /\ \A m \in Methods : project.calls[m].failedAt = 0
    /\ \E i, j, k, l \in DOMAIN db :
          /\ i < j /\ j < k /\ k < l
          /\ db[i].table = "userJourneys" /\ db[j].table = "dataModels"
          /\ db[k].table = "designSystems" /\ db[l].table = "userJourneys"

projectReturned == project.pc = "done"

advised(advice) == \E i \in DOMAIN project.improvements : project.improvements[i] = advice

\* C16: the improvements analyzeProject returns hold the data-model advice iff
\* the data-model confidence is below 0.7, the design-consistency advice iff
\* the design-system confidence is below 0.8, the landing-page advice iff no
\* screen is of type landing, the settings advice iff no screen is of type
\* settings, and the diversity advice iff fewer than 5 distinct component
\* types are in use
C16_ImprovementsGated ==
    projectReturned =>
        /\ advised(ClearerRelationshipsAdvice)
              <=> RatLt(project.calls["inferDataModels"].resolved.confidence, Rat(7, 10))
        /\ advised(DesignConsistencyAdvice)
              <=> RatLt(project.calls["extractDesignSystem"].resolved.confidence, Rat(8, 10))
        /\ advised(LandingAdvice) <=> ~(\E i \in DOMAIN screens : screens[i].type = "landing")
        /\ advised(SettingsAdvice)
              <=> ~(\E i \in DOMAIN screens : screens[i].type = "settings")
        /\ advised(DiversityAdvice)
              <=> Cardinality({components[i].componentType : i \in DOMAIN components}) < 5

\* analyzeProject has returned for a project with a landing screen, no settings
\* screen, five component types and a design-system confidence of 0.8 or more
C16_Witness ==
    /\ projectReturned
    /\ advised(ClearerRelationshipsAdvice) /\ advised(SettingsAdvice)
    /\ ~advised(DesignConsistencyAdvice) /\ ~advised(LandingAdvice)
    /\ ~advised(DiversityAdvice)
    /\ project.calls["extractDesignSystem"].failedAt = 0

\* C27: for every component batch, the confidence returned by
\* inferDataModelsFromComponents is strictly below 0.7, so the improvements
\* list of analyzeProject always contains the advice 'Consider defining
\* clearer data relationships between components'
C27_DataModelConfidenceBelowFloor ==
    /\ (/\ entry = "inferDataModelsFromComponents" /\ pc = "done"
        /\ result.status = "returned")
          => RatLt(result.confidence, DataModelConfidenceFloor)
    /\ project.pc \in {"calling", "awaiting", "done"} =>
          (project.inferred["inferDataModels"] \notin {NoResult, Threw}
              => RatLt(project.inferred["inferDataModels"].confidence,
                       DataModelConfidenceFloor))
    /\ projectReturned => advised(ClearerRelationshipsAdvice)

\* analyzeProject has returned for a project whose form fields gave two data
\* models, all saved: the data-model result is the inferred one, its
\* confidence is above 0, and the advice is given
C27_Witness ==
    /\ projectReturned
    /\ project.calls["inferDataModels"].failedAt = 0
    /\ project.calls["inferDataModels"].resolved = project.inferred["inferDataModels"]
    /\ Len(project.calls["inferDataModels"].resolved.data) = 2
    /\ RatLt(RatZero, project.calls["inferDataModels"].resolved.confidence)
    /\ advised(ClearerRelationshipsAdvice)

-----------------------------------------------------------------------------
(* Claims about analyzeDataFlow *)

flowsReturned == entry = "analyzeDataFlow" /\ pc = "done"

ofType(componentType) ==
    {i \in DOMAIN components : components[i].componentType = componentType}

\* the edges from every component of one type to every list component
edgesToLists(componentType, dataType, confidence) ==
    { [source |-> components[f].id, target |-> components[l].id, dataType |-> dataType,
       confidence |-> confidence] : f \in ofType(componentType), l \in ofType(s_list) }

\* C17 as claimed: whatever the order of the components, the edges returned
\* are one form_submission edge of confidence 0.8 from every form to every
\* list, one filter_query edge of confidence 0.9 from every search to every
\* list, and no other edge
C17_DataFlowAllPairs ==
    flowsReturned =>
        /\ {result.data[e] : e \in DOMAIN result.data}
              = edgesToLists(s_form, "form_submission", Rat(8, 10))
                \cup edgesToLists(s_search, "filter_query", Rat(9, 10))
        /\ \A d, e \in DOMAIN result.data : result.data[d] = result.data[e] => d = e

-----------------------------------------------------------------------------
(* The inference store: useInferenceStore (src/unnamed/part_001 786-978).
   Every action of the store is an async function: it runs synchronously up
   to its await of the inference service, and its continuation (the rest of
   the try block, or the catch block) runs as one step once the promise has
   settled.  Calls are kept in the order they were started; the values the
   service settles with are kept by the action that asked for them. *)

\* the number of calls of store actions in one behaviour
MaxStoreCalls == 3

StoreActions ==
    {"inferDataModels", "extractDesignSystem", "generateUserJourneys",
     "analyzeProject", "suggestComponents", "analyzeDataFlow"}

\* the actions that add result.suggestions to improvements
SuggestingActions == {"inferDataModels", "extractDesignSystem", "generateUserJourneys"}

\* the service's analyzeProject rethrows (src/src/services/inference.ts 138-140);
\* its other methods settle with a value whatever happens
RejectingActions == {"analyzeProject"}

Empty == "empty"

\* lines 790-801
InitialStoreState ==
    [dataModels |-> Empty, dataModelInference |-> Empty,
     designSystem |-> Empty, designSystemInference |-> Empty,
     userJourneys |-> Empty, userJourneyInference |-> Empty,
     projectAnalysis |-> Empty, improvements |-> <<>>,
     componentSuggestions |-> Empty, dataFlows |-> Empty,
     isInferring |-> FALSE, inferenceError |-> Empty]

\* what the service can settle a call with: a value made by this call, with
\* or without advice
Settlements(action) ==
    { [by |-> action, suggestions |-> advice] : advice \in {<<>>, <<action>>} }

storeCalled == "calls" \in DOMAIN store

running == {c \in DOMAIN store.calls : store.calls[c].pc = "awaiting"}

engineIdle ==
    UNCHANGED <<entry, pc, components, screens, dataModels, reasoning, suggestions,
                totalConfidence, stage, connections, personas, journeys, uuids,
                result, service, db, project>>

\* set({ isInferring: true, inferenceError: null }) and the call of the
\* service: lines 805-808, 833-836, 861-864, 889-892, 913-916, 933-936
StartAction(action) ==
    /\ storeCalled
    /\ Len(store.calls) < MaxStoreCalls
    /\ store' = [state |-> [store.state EXCEPT !.isInferring = TRUE,
                                                !.inferenceError = Empty],
                 calls |-> Append(store.calls, [action |-> action, pc |-> "awaiting"])]
    /\ engineIdle

\* the rest of the try block
settled(state, action, value) ==
    IF action = "inferDataModels"
    THEN [state EXCEPT !.dataModels = value.by, !.dataModelInference = value.by,
                       !.isInferring = FALSE,
                       !.improvements = @ \o value.suggestions]
    ELSE IF action = "extractDesignSystem"
    THEN [state EXCEPT !.designSystem = value.by, !.designSystemInference = value.by,
                       !.isInferring = FALSE,
                       !.improvements = @ \o value.suggestions]
    ELSE IF action = "generateUserJourneys"
    THEN [state EXCEPT !.userJourneys = value.by, !.userJourneyInference = value.by,
                       !.isInferring = FALSE,
                       !.improvements = @ \o value.suggestions]
    ELSE IF action = "analyzeProject"
    THEN [state EXCEPT !.projectAnalysis = value.by, !.dataModels = value.by,
                       !.designSystem = value.by, !.userJourneys = value.by,
                       !.improvements = value.suggestions,
                       !.isInferring = FALSE]
    ELSE IF action = "suggestComponents"
    THEN [state EXCEPT !.componentSuggestions = value.by, !.isInferring = FALSE]
    ELSE [state EXCEPT !.dataFlows = value.by, !.isInferring = FALSE]

\* the promise of a running call is fulfilled: lines 810-821, 838-849,
\* 866-877, 894-901, 918-921, 938-941
FulfilAction ==
    /\ storeCalled
    /\ \E c \in running :
         \E value \in Settlements(store.calls[c].action) :
            store' = [state |-> settled(store.state, store.calls[c].action, value),
                      calls |-> [store.calls EXCEPT ![c].pc = "done"]]
    /\ engineIdle

\* the catch block
failed(state, action) ==
    [state EXCEPT !.isInferring = FALSE, !.inferenceError = action]

\* the promise of a running call is rejected: lines 902-908
RejectAction ==
    /\ storeCalled
    /\ \E c \in running :
         /\ store.calls[c].action \in RejectingActions
         /\ store' = [state |-> failed(store.state, store.calls[c].action),
                      calls |-> [store.calls EXCEPT ![c].pc = "done"]]
    /\ engineIdle

\* lines 952-967
clearInference ==
    /\ storeCalled
    /\ store.state # InitialStoreState
    /\ store' = [store EXCEPT !.state = InitialStoreState]
    /\ engineIdle

\* lines 970-972
setError ==
    /\ storeCalled
    /\ \E error \in {Empty, "error"} :
         /\ store.state.inferenceError # error
         /\ store' = [store EXCEPT !.state.inferenceError = error]
    /\ engineIdle

InitStore ==
    /\ entry = "useInferenceStore"
    /\ pc = "store"
    /\ components = <<>>
    /\ screens = <<>>
    /\ dataModels = <<>>
    /\ reasoning = <<>>
    /\ suggestions = <<>>
    /\ totalConfidence = RatZero
    /\ stage = NoStages
    /\ connections = <<>>
    /\ personas = <<>>
    /\ journeys = <<>>
    /\ uuids = 0
    /\ result = NoResult
    /\ service = NoService
    /\ db = <<>>
    /\ project = NoProject
    /\ store = [state |-> InitialStoreState, calls |-> <<>>]

NextStore ==
    \/ \E action \in StoreActions : StartAction(action)
    \/ FulfilAction
    \/ RejectAction
    \/ clearInference
    \/ setError

SpecStore == InitStore /\ [][NextStore]_vars

-----------------------------------------------------------------------------
(* Claims about the inference store *)

\* C30 as claimed: isInferring is true at every moment at which at least one
\* action of the store has started and not yet finished, also when two
\* actions overlap in time
C30_InferringWhileAnyActionRuns ==
    (storeCalled /\ running # {}) => store.state.isInferring

\* two actions overlapped and the first one has finished: the second one is
\* still waiting for the service and isInferring is false
C30_OverlapLeavesInferringFalse ==
    /\ storeCalled
    /\ Len(store.calls) = 2
    /\ store.calls[1] = [action |-> "inferDataModels", pc |-> "done"]
    /\ store.calls[2] = [action |-> "analyzeDataFlow", pc |-> "awaiting"]
    /\ store.state.dataModels = "inferDataModels"
    /\ ~store.state.isInferring

====
